---- MODULE Spec2Model ----
(***************************************************************************)
(* zeta-lab: the spiral generator, the Riemann-Siegel series evaluator and *)
(* the adaptive downsampler, serial and parallel.                          *)
(*                                                                         *)
(* Numbers.  The code computes in IEEE doubles; the model computes in      *)
(* exact integers and rationals.  cos/sin/pow/log of the term formulas are *)
(* not computed: a displacement d(i) is an arbitrary function of the index *)
(* drawn in Init, a series term is an injective function of its index.     *)
(* A JavaScript number that can be NaN is a record [nan, val].             *)
(* The imaginary coordinate is carried as imagPi = floor(imag / pi), from  *)
(* which both term counts are computed exactly.                            *)
(***************************************************************************)
EXTENDS Integers, Sequences, FiniteSets, TLC

\* ------------------------------------------------------------------ bounds
MaxHC == 2          \* navigator.hardwareConcurrency ranges over 0..MaxHC (0: undefined)
MaxV == 9           \* series term counts v up to MaxV
MaxN == 3           \* spiral term counts totalRange up to MaxN
MaxFailures == 1    \* workers that may crash during one call
MaxLen == 4         \* input point sequences of length 0..MaxLen
MaxAggr == 2        \* aggressiveness levels 0..MaxAggr
MinOut == 2         \* the output grid sizes are MinOut and MaxOut
MaxOut == 6
FarX == 40          \* x coordinates are 0 and FarX, y coordinates 0 and 1
MaxCPU == 3         \* runtime.NumCPU() ranges over 1..MaxCPU
MaxCoord == 3       \* grouping inputs lie on a diagonal at the steps 0..MaxCoord
MaxStepOut == 60    \* output grid sizes 1..MaxStepOut for the gaps of the step counts
MaxFrameRequests == 3  \* requestAnimationFrame calls per run of the page
MaxCalls == 4       \* updateVisualization calls per run of the page
MaxIndex == 2       \* values 1..MaxIndex of the index input
MaxSpiralLength == 5   \* spiralLength of the inline-downsampling calculateSpiral
MaxForce == 4          \* options.forceIncludeCount 0..MaxForce
ForceIncludeCap == 2   \* stands for the cap 17000 of the force-include loop
FloatBits == 3      \* significant bits of the floating-point format of the rounded fast path
\* len(links) < 10000 takes the serial path: the threshold, scaled to the model's lengths
ParallelMinLinks == 2

\* ------------------------------------------------------- program constants
DefaultConcurrency == 4
MinSeriesWorkers == 8
\* Math.max(0.01, maxRange): 0.01 in coordinate units
BaseRangeUnits == 15001

\* --------------------------------------------------------------- variables
VARIABLES
    entry,        \* the API call under way
    hc,           \* navigator.hardwareConcurrency (0: undefined)
    imagPi,       \* floor(imag / pi) of the target argument
    failures,     \* workers crashed so far in this call
    \* ZetaMath.reimannSiegel (parallel)
    rsPc, rsWorkers, rsJob, rsReply, rsPromises, rsResults, rsOutOfOrder,
    rsAllTerms, rsSum, rsZeta,
    \* ZetaMath.calculateSpiralParallel / calculateSpiral
    spDisp, spPc, spWorkers, spChunk, spReply, spPromises, spOutOfOrder,
    spPoints, spScale, spZeta,
    \* downsampleComplex: the inputs
    dsLinks, dsOutputSize, dsAggr,
    \* downsampleComplex: the call
    dsPc, dsResult,
    \* JavaScript downsampleComplex: the loop
    dsI, dsGroup, dsDownsampled,
    \* Go downsampleComplex: the parallel phase
    numCPU, goNaNInt, goWorkers, goResults, goClosed, goCollected, goOutOfOrder,
    \* the page's animation controller (DOMContentLoaded handler)
    animSlider,         \* elements.animSlider.value: 0 or non-zero (1)
    animationFrameId,   \* 0: null
    lastFrameTime,      \* 0 or non-zero (1)
    indexInput,         \* elements.indexInput.value
    appFrames,          \* the frame requests pending in the browser
    appFrameCount,      \* requestAnimationFrame calls so far (the last id handed out)
    appCalls,           \* updateVisualization calls suspended at await updateSpiral
    appCallCount,       \* updateVisualization calls so far
    appShown,           \* index whose geometry and zeta value are displayed (0: none)
    appRequested,       \* index of the most recent updateVisualization call
    appStopped,         \* stopAnimation ran since the last non-zero slider input
    \* single-threaded calculateSpiral with inline downsampling
    inlLength,          \* spiralLength
    inlForce,           \* options.forceIncludeCount
    inlEnabled,         \* options.downsamplingEnabled
    inlPc, inlI,        \* position and loop index
    inlSum,             \* runningSum, as the term indices added so far
    inlPoints           \* points[0..pointCount-1], each the runningSum it copied

envVars == <<entry, hc, imagPi, failures>>
rsVars == <<rsPc, rsWorkers, rsJob, rsReply, rsPromises, rsResults, rsOutOfOrder,
            rsAllTerms, rsSum, rsZeta>>
spVars == <<spDisp, spPc, spWorkers, spChunk, spReply, spPromises, spOutOfOrder,
            spPoints, spScale, spZeta>>
dsInputs == <<dsLinks, dsOutputSize, dsAggr>>
jsVars == <<dsPc, dsResult, dsI, dsGroup, dsDownsampled>>
goVars == <<numCPU, goNaNInt, goWorkers, goResults, goClosed, goCollected, goOutOfOrder>>
dsVars == <<dsInputs, jsVars, goVars>>
appVars == <<animSlider, animationFrameId, lastFrameTime, indexInput, appFrames,
             appFrameCount, appCalls, appCallCount, appShown, appRequested, appStopped>>
inlVars == <<inlLength, inlForce, inlEnabled, inlPc, inlI, inlSum, inlPoints>>
extVars == <<appVars, inlVars>>
vars == <<envVars, rsVars, spVars, dsVars, extVars>>

\* the page and the inline downsampler are not in use
ExtIdle ==
    /\ animSlider = 0 /\ animationFrameId = 0 /\ lastFrameTime = 0 /\ indexInput = 1
    /\ appFrames = {} /\ appFrameCount = 0 /\ appCalls = {} /\ appCallCount = 0
    /\ appShown = 0 /\ appRequested = 0 /\ appStopped = FALSE
    /\ inlLength = 0 /\ inlForce = 0 /\ inlEnabled = FALSE
    /\ inlPc = "idle" /\ inlI = 0 /\ inlSum = <<>> /\ inlPoints = <<>>

\* ----------------------------------------------------------------- numbers
Num(n) == [nan |-> FALSE, val |-> n]
NaN == [nan |-> TRUE, val |-> 0]

Min(a, b) == IF a <= b THEN a ELSE b
Max(a, b) == IF a >= b THEN a ELSE b

\* Math.ceil(a / b) for integers a >= 0, b > 0
CeilDiv(a, b) == (a + b - 1) \div b

\* Math.floor(Math.sqrt(x)) for x >= 0
ISqrt(x) == CHOOSE r \in 0..x : r * r <= x /\ (r + 1) * (r + 1) > x

\* NaN-propagating arithmetic of JavaScript numbers
NCeilDiv(a, b) == IF a.nan THEN NaN ELSE Num(CeilDiv(a.val, b))
NMul(i, a) == IF a.nan THEN NaN ELSE Num(i * a.val)
NMin(a, b) == IF a.nan \/ b.nan THEN NaN ELSE Num(Min(a.val, b.val))
\* a < b is false as soon as one side is NaN
NLess(a, b) == ~a.nan /\ ~b.nan /\ a.val < b.val

RECURSIVE SumSeq(_)
SumSeq(s) == IF s = <<>> THEN 0 ELSE Head(s) + SumSeq(Tail(s))

\* ------------------------------------------------- series: pure functions
\* v = Math.floor(Math.sqrt(t / (2 * Math.PI))); the square root of a negative is NaN
VOf(ip) == IF ip < 0 THEN NaN ELSE Num(ISqrt(ip \div 2))

\* Math.cos(V(t) - t * Math.log(n)) / Math.sqrt(n), n = k + 1: a function of n for fixed t
Term(n) == 3 ^ (n - 1)

NUM_WORKERS(h) == Max(IF h = 0 THEN DefaultConcurrency ELSE h, MinSeriesWorkers)

StartK(i, chunkSize) == NMul(i, chunkSize)

EndKNoClamp(i, chunkSize, v) == NMul(i + 1, chunkSize)
EndK(i, chunkSize, v) == NMin(NMul(i + 1, chunkSize), v)

RECURSIVE WorkerTermsInclusive(_, _)
WorkerTermsInclusive(k, endK) ==
    IF ~k.nan /\ ~endK.nan /\ k.val <= endK.val
    THEN <<Term(k.val + 1)>> \o WorkerTermsInclusive(Num(k.val + 1), endK)
    ELSE <<>>

\* riemann-worker.js: for (k = startK; k < endK; k++) terms.push(term(k + 1))
RECURSIVE WorkerTerms(_, _)
WorkerTerms(k, endK) ==
    IF NLess(k, endK) THEN <<Term(k.val + 1)>> \o WorkerTerms(Num(k.val + 1), endK)
    ELSE <<>>

RiemannWorker(job) ==
    LET terms == WorkerTerms(job.startK, job.endK)
    IN [chunkId |-> job.chunkId, startK |-> job.startK, endK |-> job.endK,
        partialSum |-> SumSeq(terms), terms |-> terms]

Undefined == [defined |-> FALSE, data |-> <<>>]
Defined(d) == [defined |-> TRUE, data |-> d]

\* for (const result of results) if (result) { allTerms.push(...); sum += ... }
RECURSIVE CombineFrom(_, _, _)
CombineFrom(results, i, acc) ==
    IF i \notin DOMAIN results THEN acc
    ELSE CombineFrom(results, i + 1,
            IF results[i].defined
            THEN [sum |-> acc.sum + results[i].data.partialSum,
                  allTerms |-> acc.allTerms \o results[i].data.terms]
            ELSE acc)

Combine(results) == CombineFrom(results, 0, [sum |-> 0, allTerms |-> <<>>])

\* The value returned: Z rotated by -V(t); NaN as soon as t <= 0 is fed to log and 1/t
ZetaValue(ip, sum) == [nan |-> ip < 0, mainSum |-> sum]

\* serial reimannSiegel: for (k = 0; k < v; k++) sum += term(k + 1); sum *= 2
RECURSIVE SerialSumFrom(_, _, _)
SerialSumFrom(k, v, sum) ==
    IF NLess(Num(k), v) THEN SerialSumFrom(k + 1, v, sum + Term(k + 1)) ELSE sum

SerialMainSum(ip) == 2 * SerialSumFrom(0, VOf(ip), 0)

\* ------------------------------------------------- series: the parallel call
NoWorkers == [i \in {} |-> 0]

RSIdle ==
    /\ rsPc = "idle" /\ rsWorkers = NoWorkers /\ rsJob = NoWorkers
    /\ rsReply = NoWorkers /\ rsPromises = NoWorkers /\ rsResults = NoWorkers
    /\ rsOutOfOrder = FALSE /\ rsAllTerms = <<>> /\ rsSum = 0
    /\ rsZeta = ZetaValue(0, 0)

\* reimannSiegel up to its await: one worker, one promise and one job per chunk
RSDispatch ==
    /\ entry = "reimannSiegel" /\ rsPc = "start"
    /\ LET v == VOf(imagPi)
           W == NUM_WORKERS(hc)
           chunkSize == NCeilDiv(v, W)
       IN /\ rsWorkers' = [i \in 0..W-1 |-> "posted"]
          /\ rsJob' = [i \in 0..W-1 |->
                         [startK |-> StartK(i, chunkSize),
                          endK |-> EndK(i, chunkSize, v), chunkId |-> i]]
          /\ rsReply' = [i \in 0..W-1 |-> Undefined]
          /\ rsPromises' = [i \in 0..W-1 |-> FALSE]
          /\ rsResults' = [i \in 0..W-1 |-> Undefined]
    /\ rsPc' = "await"
    /\ UNCHANGED <<extVars, envVars, spVars, dsVars, rsOutOfOrder, rsAllTerms, rsSum, rsZeta>>

\* riemann-worker.js self.onmessage: compute the chunk and post the result
RSWorkerRun(i) ==
    /\ rsPc = "await" /\ i \in DOMAIN rsWorkers /\ rsWorkers[i] = "posted"
    /\ rsWorkers' = [rsWorkers EXCEPT ![i] = "replied"]
    /\ rsReply' = [rsReply EXCEPT ![i] = Defined(RiemannWorker(rsJob[i]))]
    /\ UNCHANGED <<extVars, envVars, spVars, dsVars, rsPc, rsJob, rsPromises, rsResults, rsOutOfOrder,
                   rsAllTerms, rsSum, rsZeta>>

\* the worker dies before posting (script load error, exception): no handler is installed
RSWorkerFail(i) ==
    /\ rsPc = "await" /\ i \in DOMAIN rsWorkers /\ rsWorkers[i] = "posted"
    /\ failures < MaxFailures
    /\ failures' = failures + 1
    /\ rsWorkers' = [rsWorkers EXCEPT ![i] = "failed"]
    /\ UNCHANGED <<extVars, entry, hc, imagPi, spVars, dsVars, rsPc, rsJob, rsReply, rsPromises,
                   rsResults, rsOutOfOrder, rsAllTerms, rsSum, rsZeta>>

\* a result is handled while the result of an earlier chunk is still outstanding
Overtakes(i, resolved) == \E j \in 0..(i - 1) : ~resolved[j]

RSStoreByArrival(results, msg) ==
    [results EXCEPT ![Cardinality({j \in DOMAIN results : results[j].defined})] = Defined(msg)]
RSStore(results, msg) == [results EXCEPT ![msg.chunkId] = Defined(msg)]

\* worker.onmessage of worker i: results[e.data.chunkId] = e.data; resolve(e.data)
RSOnMessage(i) ==
    /\ rsPc = "await" /\ i \in DOMAIN rsWorkers /\ rsWorkers[i] = "replied"
    /\ rsWorkers' = [rsWorkers EXCEPT ![i] = "delivered"]
    /\ rsResults' = RSStore(rsResults, rsReply[i].data)
    /\ rsPromises' = [rsPromises EXCEPT ![i] = TRUE]
    /\ rsOutOfOrder' = (rsOutOfOrder \/ Overtakes(i, rsPromises))
    /\ UNCHANGED <<extVars, envVars, spVars, dsVars, rsPc, rsJob, rsReply, rsAllTerms, rsSum, rsZeta>>

RSSomeResolved(promises) == \E i \in DOMAIN promises : promises[i]
RSAllResolved(promises) == \A i \in DOMAIN promises : promises[i]

\* after await Promise.all(promises): terminate the workers, combine, correct, rotate
RSContinue ==
    /\ rsPc = "await" /\ RSAllResolved(rsPromises)
    /\ rsWorkers' = [i \in DOMAIN rsWorkers |-> "terminated"]
    /\ LET c == Combine(rsResults)
       IN /\ rsAllTerms' = c.allTerms
          /\ rsSum' = 2 * c.sum
          /\ rsZeta' = ZetaValue(imagPi, 2 * c.sum)
    /\ rsPc' = "done"
    /\ UNCHANGED <<extVars, envVars, spVars, dsVars, rsJob, rsReply, rsPromises, rsResults, rsOutOfOrder>>

\* ------------------------------------------------- spiral: pure functions
Pt(x, y) == [x |-> x, y |-> y, z |-> 0]
Origin == Pt(0, 0)

DispVals == {<<1, 0>>, <<0, -1>>, <<-1, 1>>}

\* totalRange = Math.floor(imag / Math.PI + 1)
TotalRange(ip) == ip + 1

IterationValuesFromZero(totalRange) == [j \in 1..(totalRange + 1) |-> j - 1]

\* iterationValues: i = 1; i <= totalRange; i += 1
IterationValues(totalRange) == [j \in 1..totalRange |-> j]

numWorkersNoDefault(h) == h
numWorkers(h) == IF h = 0 THEN DefaultConcurrency ELSE h

\* Array.prototype.slice(from, to) with 0 <= from <= to
Slice(arr, from, to) == SubSeq(arr, Min(from, Len(arr)) + 1, Min(to, Len(arr)))

ChunkOf(iterationValues, i, chunkSize) ==
    Slice(iterationValues, i * chunkSize, (i + 1) * chunkSize)

\* spiralWorker.js onmessage: local prefix sums from a local origin, and their total
RECURSIVE SpiralWorkerFrom(_, _, _, _)
SpiralWorkerFrom(chunk, disp, running, prefix) ==
    IF chunk = <<>> THEN [prefix |-> prefix, localSum |-> running]
    ELSE LET d == disp[Head(chunk)]
             r == [x |-> running.x + d[1], y |-> running.y + d[2]]
         IN SpiralWorkerFrom(Tail(chunk), disp, r, Append(prefix, r))

SpiralWorkerFirstStep(chunk, disp) ==
    LET r == SpiralWorkerFrom(chunk, disp, [x |-> 0, y |-> 0], <<>>)
    IN [prefix |-> r.prefix,
        localSum |-> IF r.prefix = <<>> THEN [x |-> 0, y |-> 0] ELSE r.prefix[1]]

SpiralWorker(chunk, disp) == SpiralWorkerFrom(chunk, disp, [x |-> 0, y |-> 0], <<>>)

Min3(a, b, c) == Min(a, Min(b, c))
Max3(a, b, c) == Max(a, Max(b, c))

\* .sort((a, b) => a.chunkIndex - b.chunkIndex): a stable insertion sort
RECURSIVE InsertByChunkIndex(_, _)
InsertByChunkIndex(sorted, r) ==
    IF sorted = <<>> THEN <<r>>
    ELSE IF sorted[Len(sorted)].chunkIndex <= r.chunkIndex THEN Append(sorted, r)
    ELSE Append(InsertByChunkIndex(SubSeq(sorted, 1, Len(sorted) - 1), r),
                sorted[Len(sorted)])

RECURSIVE SortFrom(_, _)
SortFrom(rest, sorted) ==
    IF rest = <<>> THEN sorted
    ELSE SortFrom(Tail(rest), InsertByChunkIndex(sorted, Head(rest)))

SortByChunkIndex(results) == SortFrom(results, <<>>)

\* Promise.all: the resolved values in the order of the promises array
PromiseAll(promises) == [j \in 1..Cardinality(DOMAIN promises) |-> promises[j - 1].data]

\* for (const p of prefix) { push p + offset; widen globalMin/globalMax }
RECURSIVE AdjustChunk(_, _, _)
AdjustChunk(prefix, off, acc) ==
    IF prefix = <<>> THEN acc
    ELSE LET x == Head(prefix).x + off.x
             y == Head(prefix).y + off.y
         IN AdjustChunk(Tail(prefix), off,
                [points |-> Append(acc.points, Pt(x, y)),
                 min |-> Min3(acc.min, x, y), max |-> Max3(acc.max, x, y)])

NextOffsetNoSum(off, localSum) == off
NextOffset(off, localSum) == [x |-> off.x + localSum.x, y |-> off.y + localSum.y]

\* for (const res of results): adjust the chunk by the offset, then advance the offset
RECURSIVE Reassemble(_, _, _)
Reassemble(results, off, acc) ==
    IF results = <<>> THEN acc
    ELSE LET res == Head(results).chunkResult
         IN Reassemble(Tail(results), NextOffset(off, res.localSum),
                       AdjustChunk(res.prefix, off, acc))

MergeSpiralNoOrigin(results) ==
    Reassemble(results, [x |-> 0, y |-> 0], [points |-> <<>>, min |-> 0, max |-> 0])

MergeSpiral(results) ==
    Reassemble(results, [x |-> 0, y |-> 0], [points |-> <<Origin>>, min |-> 0, max |-> 0])

\* calculateSpiral: the serial loop i = 1..totalRange over one running sum
RECURSIVE SerialSpiralFrom(_, _, _, _, _)
SerialSpiralFrom(i, totalRange, disp, start, acc) ==
    IF i > totalRange THEN acc
    ELSE LET x == disp[i][1]
             y == disp[i][2]
             end == Pt(start.x + x, start.y + y)
         IN SerialSpiralFrom(i + 1, totalRange, disp, end,
                [points |-> Append(acc.points, end),
                 min |-> Min3(acc.min, x, y), max |-> Max3(acc.max, x, y)])

SerialSpiral(totalRange, disp) ==
    SerialSpiralFrom(1, totalRange, disp, Origin,
                     [points |-> <<Origin>>, min |-> 0, max |-> 0])

\* the value the awaited reimannSiegel(new Complex(real, imag)) resolves to
AwaitedZeta(ip) == ZetaValue(ip, SerialMainSum(ip))

\* ------------------------------------------------- spiral: the calls
SPIdle ==
    /\ spDisp = NoWorkers /\ spPc = "idle" /\ spWorkers = NoWorkers
    /\ spChunk = NoWorkers /\ spReply = NoWorkers /\ spPromises = NoWorkers
    /\ spOutOfOrder = FALSE /\ spPoints = <<>> /\ spScale = [min |-> 0, max |-> 0]
    /\ spZeta = ZetaValue(0, 0)

\* calculateSpiralParallel up to its await: slice the iterations, one worker per chunk
SPDispatch ==
    /\ entry = "calculateSpiralParallel" /\ spPc = "start"
    /\ LET iterationValues == IterationValues(TotalRange(imagPi))
           W == numWorkers(hc)
           chunkSize == CeilDiv(Len(iterationValues), W)
       IN /\ spWorkers' = [i \in 0..W-1 |-> "posted"]
          /\ spChunk' = [i \in 0..W-1 |-> ChunkOf(iterationValues, i, chunkSize)]
          /\ spReply' = [i \in 0..W-1 |-> Undefined]
          /\ spPromises' = [i \in 0..W-1 |-> Undefined]
    /\ spPc' = "await"
    /\ UNCHANGED <<extVars, envVars, rsVars, dsVars, spDisp, spOutOfOrder, spPoints, spScale, spZeta>>

\* spiralWorker.js onmessage
SPWorkerRun(i) ==
    /\ spPc = "await" /\ i \in DOMAIN spWorkers /\ spWorkers[i] = "posted"
    /\ spWorkers' = [spWorkers EXCEPT ![i] = "replied"]
    /\ spReply' = [spReply EXCEPT ![i] = Defined(SpiralWorker(spChunk[i], spDisp))]
    /\ UNCHANGED <<extVars, envVars, rsVars, dsVars, spDisp, spPc, spChunk, spPromises, spOutOfOrder,
                   spPoints, spScale, spZeta>>

\* the worker dies before posting: no onerror handler is installed
SPWorkerFail(i) ==
    /\ spPc = "await" /\ i \in DOMAIN spWorkers /\ spWorkers[i] = "posted"
    /\ failures < MaxFailures
    /\ failures' = failures + 1
    /\ spWorkers' = [spWorkers EXCEPT ![i] = "failed"]
    /\ UNCHANGED <<extVars, entry, hc, imagPi, rsVars, dsVars, spDisp, spPc, spChunk, spReply,
                   spPromises, spOutOfOrder, spPoints, spScale, spZeta>>

SPOnMessageKeepsWorker(i) ==
    /\ spPc = "await" /\ i \in DOMAIN spWorkers /\ spWorkers[i] = "replied"
    /\ spWorkers' = [spWorkers EXCEPT ![i] = "delivered"]
    /\ spPromises' = [spPromises EXCEPT
                        ![i] = Defined([chunkIndex |-> i, chunkResult |-> spReply[i].data])]
    /\ spOutOfOrder' = spOutOfOrder
    /\ UNCHANGED <<extVars, envVars, rsVars, dsVars, spDisp, spPc, spChunk, spReply, spPoints,
                   spScale, spZeta>>

\* worker.onmessage of chunk i: resolve({chunkIndex: i, chunkResult: e.data}); terminate
SPOnMessage(i) ==
    /\ spPc = "await" /\ i \in DOMAIN spWorkers /\ spWorkers[i] = "replied"
    /\ spWorkers' = [spWorkers EXCEPT ![i] = "terminated"]
    /\ spPromises' = [spPromises EXCEPT
                        ![i] = Defined([chunkIndex |-> i, chunkResult |-> spReply[i].data])]
    /\ spOutOfOrder' = (spOutOfOrder \/ Overtakes(i, [j \in DOMAIN spPromises |-> spPromises[j].defined]))
    /\ UNCHANGED <<extVars, envVars, rsVars, dsVars, spDisp, spPc, spChunk, spReply, spPoints,
                   spScale, spZeta>>

SPAllResolved(promises) == \A i \in DOMAIN promises : promises[i].defined

\* after await Promise.all(promises): sort, reassemble, then call reimannSiegel
SPContinue ==
    /\ spPc = "await" /\ SPAllResolved(spPromises)
    /\ LET m == MergeSpiral(SortByChunkIndex(PromiseAll(spPromises)))
       IN /\ spPoints' = m.points
          /\ spScale' = [min |-> m.min, max |-> m.max]
    /\ spPc' = "awaitZeta"
    /\ UNCHANGED <<extVars, envVars, rsVars, dsVars, spDisp, spWorkers, spChunk, spReply, spPromises,
                   spOutOfOrder, spZeta>>

\* the awaited reimannSiegel call resolves; calculateSpiralParallel returns
SPReturn ==
    /\ entry = "calculateSpiralParallel" /\ spPc = "awaitZeta"
    /\ spZeta' = AwaitedZeta(imagPi)
    /\ spPc' = "done"
    /\ UNCHANGED <<extVars, envVars, rsVars, dsVars, spDisp, spWorkers, spChunk, spReply, spPromises,
                   spOutOfOrder, spPoints, spScale>>

\* calculateSpiral up to its await: the points array holds the origin
SerialStart ==
    /\ entry = "calculateSpiral" /\ spPc = "start"
    /\ spPoints' = <<Origin>>
    /\ spPc' = "awaitZeta"
    /\ UNCHANGED <<extVars, envVars, rsVars, dsVars, spDisp, spWorkers, spChunk, spReply, spPromises,
                   spOutOfOrder, spScale, spZeta>>

\* the awaited reimannSiegel resolves; the loop builds the spiral; calculateSpiral returns
SerialLoop ==
    /\ entry = "calculateSpiral" /\ spPc = "awaitZeta"
    /\ spZeta' = AwaitedZeta(imagPi)
    /\ LET s == SerialSpiral(TotalRange(imagPi), spDisp)
       IN /\ spPoints' = s.points
          /\ spScale' = [min |-> s.min, max |-> s.max]
    /\ spPc' = "done"
    /\ UNCHANGED <<extVars, envVars, rsVars, dsVars, spDisp, spWorkers, spChunk, spReply, spPromises,
                   spOutOfOrder>>

\* ------------------------------------------------- downsampler: numbers
\* Coordinates are integers in units of 0.01 / BaseRangeUnits; an output point is a pair
\* of rationals <<numerator, denominator>> in lowest terms with a positive denominator.
RECURSIVE Gcd(_, _)
Gcd(a, b) == IF b = 0 THEN a ELSE Gcd(b, a % b)

Abs(n) == IF n < 0 THEN -n ELSE n

Rat(n, d) ==
    LET g == Gcd(Abs(n), Abs(d))
        sg == IF d < 0 THEN -1 ELSE 1
    IN <<(sg * n) \div g, (sg * d) \div g>>

RatAdd(p, q) == Rat(p[1] * q[2] + q[1] * p[2], p[2] * q[2])
RatMul(p, q) == Rat(p[1] * q[1], p[2] * q[2])

\* complex128 / {real, imag} with rational parts
Cx(re, im) == [re |-> re, im |-> im]
CxOfLink(link) == Cx(Rat(link.re, 1), Rat(link.im, 1))
CxScale(c, r) == Cx(RatMul(c.re, r), RatMul(c.im, r))
CxAdd(c, e) == Cx(RatAdd(c.re, e.re), RatAdd(c.im, e.im))

\* ------------------------------------------------- downsampler: thresholds
\* aggressiveness takes the integer levels 0..4; "aggressiveness > 3.5" is 2a > 7 and
\* t = (aggressiveness - 3.5) / 0.5 is 2a - 7
Smoothing(a) == 2 * a > 7
SmoothT(a) == 2 * a - 7

MaxRelativeSpreadTight(a) == <<1, 100000>>

\* maxRelativeSpread, as a fraction <<num, den>>
MaxRelativeSpread(a) ==
    IF Smoothing(a) THEN <<3 + 2 * SmoothT(a), 100>> ELSE <<5 ^ a, 10000>>

PixelSpreadThresholdNegative(a) == 0 - 1 - 2 * a
PixelSpreadThresholdOffByOne(a) == 2 + 2 * a
PixelSpreadThreshold(a) == IF a > 0 THEN 1 + 2 * a ELSE 1

\* pixelGap > interpolationThreshold, for pixelGap = sqrt(d2):
\* 1.1 * 2.5^a = 11 * 5^a / (10 * 2^a), or 55 + 20 t above 3.5
ExceedsInterpolationThreshold(d2, a) ==
    IF Smoothing(a)
    THEN d2 > (55 + 20 * SmoothT(a)) * (55 + 20 * SmoothT(a))
    ELSE d2 * (10 * 2 ^ a) * (10 * 2 ^ a) > (11 * 5 ^ a) * (11 * 5 ^ a)

InterpolationStepsHalved(d2, a) == ISqrt(d2 \div (4 ^ a)) \div 2
InterpolationStepsUnscaled(d2, a) == ISqrt(d2)

\* steps = floor(pixelGap / 2^min(a, 3.5)), then floor(steps * (1 - 0.5 t)) above 3.5
InterpolationSteps(d2, a) ==
    IF Smoothing(a)
    THEN (ISqrt(d2 \div 128) * (2 - SmoothT(a))) \div 2
    ELSE ISqrt(d2 \div (4 ^ a))

\* ------------------------------------------------- downsampler: the algorithm
SetMin(S) == CHOOSE m \in S : \A x \in S : m <= x
SetMax(S) == CHOOSE m \in S : \A x \in S : m >= x

\* view bounds over all links
ViewBounds(links) ==
    LET xs == {links[j].re : j \in 1..Len(links)}
        ys == {links[j].im : j \in 1..Len(links)}
    IN [minX |-> SetMin(xs), maxX |-> SetMax(xs), minY |-> SetMin(ys), maxY |-> SetMax(ys)]

\* relativeSpread <= maxRelativeSpread
IsRelativelyClose(b, a) ==
    LET maxRange == Max(b.maxX - b.minX, b.maxY - b.minY)
        baseRange == Max(BaseRangeUnits, maxRange)
        mrs == MaxRelativeSpread(a)
    IN maxRange * mrs[2] <= mrs[1] * baseRange

RECURSIVE SumLinks(_)
SumLinks(links) ==
    IF links = <<>> THEN [re |-> 0, im |-> 0]
    ELSE LET r == SumLinks(Tail(links))
         IN [re |-> Head(links).re + r.re, im |-> Head(links).im + r.im]

AverageAllOffByOne(links) ==
    LET sum == SumLinks(links)
    IN <<Cx(Rat(sum.re, Len(links) + 1), Rat(sum.im, Len(links) + 1))>>

\* the fast path: the mean of all links
AverageAll(links) ==
    LET sum == SumLinks(links)
    IN <<Cx(Rat(sum.re, Len(links)), Rat(sum.im, Len(links)))>>

\* Math.round((v - lo) / (hi - lo) * outputSize); 0 / 0 is NaN, whose rounding is
\* NaN in JavaScript and a platform's fixed integer in Go
PixelAxis(v, lo, hi, outputSize, ofNaN) ==
    IF hi = lo THEN ofNaN
    ELSE Num((2 * (v - lo) * outputSize + (hi - lo)) \div (2 * (hi - lo)))

pixelForLink(link, P) ==
    [px |-> PixelAxis(link.re, P.b.minX, P.b.maxX, P.outputSize, P.ofNaN),
     py |-> PixelAxis(link.im, P.b.minY, P.b.maxY, P.outputSize, P.ofNaN)]

NEq(p, q) == ~p.nan /\ ~q.nan /\ p.val = q.val
NWithin(p, q, thr) == ~p.nan /\ ~q.nan /\ Abs(p.val - q.val) <= thr

GroupOf(link, pix) ==
    [sum |-> [re |-> link.re, im |-> link.im], count |-> 1,
     pixelX |-> pix.px, pixelY |-> pix.py, lastLink |-> link]

BelongsToGroupEitherAxis(pix, g, a) ==
    \/ NEq(pix.px, g.pixelX) /\ NEq(pix.py, g.pixelY)
    \/ NWithin(pix.px, g.pixelX, PixelSpreadThreshold(a))
    \/ NWithin(pix.py, g.pixelY, PixelSpreadThreshold(a))

\* the point belongs to the current group
BelongsToGroup(pix, g, a) ==
    \/ NEq(pix.px, g.pixelX) /\ NEq(pix.py, g.pixelY)
    \/ /\ NWithin(pix.px, g.pixelX, PixelSpreadThreshold(a))
       /\ NWithin(pix.py, g.pixelY, PixelSpreadThreshold(a))

JoinGroupNoCount(g, link) ==
    [g EXCEPT !.sum = [re |-> g.sum.re + link.re, im |-> g.sum.im + link.im],
              !.lastLink = link]

JoinGroup(g, link) ==
    [g EXCEPT !.sum = [re |-> g.sum.re + link.re, im |-> g.sum.im + link.im],
              !.count = g.count + 1, !.lastLink = link]

flushGroupNoDivide(g) == Cx(Rat(g.sum.re, 1), Rat(g.sum.im, 1))
flushGroupLastMember(g) == Cx(Rat(g.lastLink.re, 1), Rat(g.lastLink.im, 1))
flushGroup(g) == Cx(Rat(g.sum.re, g.count), Rat(g.sum.im, g.count))

\* dx * dx + dy * dy between two pixels; NaN when a coordinate is NaN
Gap2(px1, py1, px0, py0) ==
    IF px1.nan \/ py1.nan \/ px0.nan \/ py0.nan THEN NaN
    ELSE Num((px1.val - px0.val) * (px1.val - px0.val)
             + (py1.val - py0.val) * (py1.val - py0.val))

InterpolateInclusive(from, to, steps) ==
    [s \in 1..steps |->
        CxAdd(CxScale(from, Rat(steps - s, steps)), CxScale(to, Rat(s, steps)))]

\* for s = 1..steps: from * (1 - t) + to * t with t = s / (steps + 1)
Interpolate(from, to, steps) ==
    [s \in 1..steps |->
        CxAdd(CxScale(from, Rat(steps + 1 - s, steps + 1)),
              CxScale(to, Rat(s, steps + 1)))]

\* the interpolants for a gap, none when the gap does not exceed the threshold
GapInterpolants(d2, from, to, a) ==
    IF ~d2.nan /\ ExceedsInterpolationThreshold(d2.val, a)
    THEN Interpolate(from, to, InterpolationSteps(d2.val, a))
    ELSE <<>>

GroupStepMovingAnchor(st, link, P) ==
    LET pix == pixelForLink(link, P)
        g == st.group
    IN IF BelongsToGroup(pix, g, P.a)
       THEN [st EXCEPT !.group = [JoinGroup(g, link) EXCEPT !.pixelX = pix.px,
                                                            !.pixelY = pix.py]]
       ELSE [group |-> GroupOf(link, pix),
             points |-> Append(st.points, flushGroup(g))
                        \o GapInterpolants(Gap2(pix.px, pix.py, g.pixelX, g.pixelY),
                                           CxOfLink(g.lastLink), CxOfLink(link), P.a)]

GroupStepFromMean(st, link, P) ==
    LET pix == pixelForLink(link, P)
        g == st.group
    IN IF BelongsToGroup(pix, g, P.a)
       THEN [st EXCEPT !.group = JoinGroup(g, link)]
       ELSE [group |-> GroupOf(link, pix),
             points |-> Append(st.points, flushGroup(g))
                        \o GapInterpolants(Gap2(pix.px, pix.py, g.pixelX, g.pixelY),
                                           flushGroup(g), CxOfLink(link), P.a)]

\* one iteration of the grouping loop on link: join, or flush, interpolate and restart
GroupStep(st, link, P) ==
    LET pix == pixelForLink(link, P)
        g == st.group
    IN IF BelongsToGroup(pix, g, P.a)
       THEN [st EXCEPT !.group = JoinGroup(g, link)]
       ELSE [group |-> GroupOf(link, pix),
             points |-> Append(st.points, flushGroup(g))
                        \o GapInterpolants(Gap2(pix.px, pix.py, g.pixelX, g.pixelY),
                                           CxOfLink(g.lastLink), CxOfLink(link), P.a)]

\* the loop over links[from..to] (1-based, inclusive)
RECURSIVE GroupLoop(_, _, _, _, _)
GroupLoop(st, links, from, to, P) ==
    IF from > to THEN st
    ELSE GroupLoop(GroupStep(st, links[from], P), links, from + 1, to, P)

\* the grouping of links[first..last], started fresh at links[first], final group flushed
GroupRun(links, first, last, P) ==
    LET init == [group |-> GroupOf(links[first], pixelForLink(links[first], P)),
                 points |-> <<>>]
        st == GroupLoop(init, links, first + 1, last, P)
    IN [points |-> Append(st.points, flushGroup(st.group)), group |-> st.group]

Params(links, outputSize, a, ofNaN) ==
    [b |-> ViewBounds(links), outputSize |-> outputSize, a |-> a, ofNaN |-> ofNaN]

DownsampleSerialOriginForEmpty(links, outputSize, a, ofNaN) ==
    IF Len(links) = 0 THEN <<Cx(<<0, 1>>, <<0, 1>>)>>
    ELSE IF IsRelativelyClose(ViewBounds(links), a) THEN AverageAll(links)
    ELSE GroupRun(links, 1, Len(links), Params(links, outputSize, a, ofNaN)).points

\* downsampleComplexSerial (Go) and downsampleComplex (JavaScript), as a function
DownsampleSerial(links, outputSize, a, ofNaN) ==
    IF Len(links) = 0 THEN <<>>
    ELSE IF IsRelativelyClose(ViewBounds(links), a) THEN AverageAll(links)
    ELSE GroupRun(links, 1, Len(links), Params(links, outputSize, a, ofNaN)).points

\* ------------------------------------------------- downsampler: JavaScript, stepwise
NoGroup == [sum |-> [re |-> 0, im |-> 0], count |-> 0, pixelX |-> Num(0),
            pixelY |-> Num(0), lastLink |-> [re |-> 0, im |-> 0]]

\* downsampleComplex up to the loop: empty input, fast path, or the first group
JSStart ==
    /\ entry = "downsampleComplexJS" /\ dsPc = "start"
    /\ IF Len(dsLinks) = 0
       THEN /\ dsResult' = <<>> /\ dsPc' = "done"
            /\ UNCHANGED <<dsGroup, dsDownsampled, dsI>>
       ELSE IF IsRelativelyClose(ViewBounds(dsLinks), dsAggr)
       THEN /\ dsResult' = AverageAll(dsLinks) /\ dsPc' = "done"
            /\ UNCHANGED <<dsGroup, dsDownsampled, dsI>>
       ELSE /\ dsGroup' = GroupOf(dsLinks[1],
                            pixelForLink(dsLinks[1], Params(dsLinks, dsOutputSize, dsAggr, NaN)))
            /\ dsDownsampled' = <<>>
            /\ dsI' = 1
            /\ dsPc' = "loop"
            /\ UNCHANGED dsResult
    /\ UNCHANGED <<extVars, envVars, rsVars, spVars, dsInputs, goVars>>

\* one iteration: links[i] for i = 1..length-1 (0-based), dsLinks[dsI + 1] here
JSStep ==
    /\ entry = "downsampleComplexJS" /\ dsPc = "loop" /\ dsI < Len(dsLinks)
    /\ LET st == GroupStep([group |-> dsGroup, points |-> dsDownsampled], dsLinks[dsI + 1],
                           Params(dsLinks, dsOutputSize, dsAggr, NaN))
       IN /\ dsGroup' = st.group
          /\ dsDownsampled' = st.points
    /\ dsI' = dsI + 1
    /\ UNCHANGED <<extVars, envVars, rsVars, spVars, dsInputs, goVars, dsPc, dsResult>>

\* after the loop: flush the final group and return
JSFlush ==
    /\ entry = "downsampleComplexJS" /\ dsPc = "loop" /\ dsI >= Len(dsLinks)
    /\ dsDownsampled' = Append(dsDownsampled, flushGroup(dsGroup))
    /\ dsResult' = dsDownsampled'
    /\ dsPc' = "done"
    /\ UNCHANGED <<extVars, envVars, rsVars, spVars, dsInputs, goVars, dsGroup, dsI>>

\* ------------------------------------------------- downsampler: Go, parallel
\* chunkSize := (len(links) + numWorkers - 1) / numWorkers
GoChunkSize(n, nWorkers) == (n + nWorkers - 1) \div nWorkers
GoStartReversed(w, chunkSize) == (numCPU - 1 - w) * chunkSize
GoStart(w, chunkSize) == w * chunkSize
GoEnd(w, chunkSize, n) == Min(w * chunkSize + chunkSize, n)

ZeroChunkWithPoint == [points |-> <<Cx(<<0, 1>>, <<0, 1>>)>>, lastPoint |-> [re |-> 0, im |-> 0],
                       lastPx |-> Num(0), lastPy |-> Num(0)]
ZeroChunk == [points |-> <<>>, lastPoint |-> [re |-> 0, im |-> 0],
              lastPx |-> Num(0), lastPy |-> Num(0)]

GoChunkResultIndexZero(worker, links, start, end, P) ==
    IF start >= end THEN [index |-> 0] @@ ZeroChunk
    ELSE LET r == GroupRun(links, start + 1, end, P)
         IN [index |-> 0, points |-> r.points, lastPoint |-> r.group.lastLink,
             lastPx |-> r.group.pixelX, lastPy |-> r.group.pixelY]

\* the goroutine of one worker: the chunkResult it sends
GoChunkResult(worker, links, start, end, P) ==
    IF start >= end THEN [index |-> worker] @@ ZeroChunk
    ELSE LET r == GroupRun(links, start + 1, end, P)
         IN [index |-> worker, points |-> r.points, lastPoint |-> r.group.lastLink,
             lastPx |-> r.group.pixelX, lastPy |-> r.group.pixelY]

\* collected[result.index] = collectedResult{...}
GoStore(collected, result) ==
    [collected EXCEPT ![result.index] =
        [points |-> result.points, lastPoint |-> result.lastPoint,
         lastPx |-> result.lastPx, lastPy |-> result.lastPy]]

\* the gap the merge measures between collected[i] and collected[i+1]
SeamGap2(cur, next) == Gap2(next.lastPx, next.lastPy, cur.lastPx, cur.lastPy)

\* the interpolants the merge adds after chunk i
SeamInterpolants(collected, i, a) ==
    IF i < Cardinality(DOMAIN collected) - 1 /\ Len(collected[i + 1].points) > 0
    THEN GapInterpolants(SeamGap2(collected[i], collected[i + 1]),
                         CxOfLink(collected[i].lastPoint), collected[i + 1].points[1], a)
    ELSE <<>>

\* for i := 0; i < len(collected); i++: skip empty chunks, append points, bridge the seam
RECURSIVE GoMergeFrom(_, _, _, _)
GoMergeFrom(collected, i, a, finalPoints) ==
    IF i \notin DOMAIN collected THEN finalPoints
    ELSE IF Len(collected[i].points) = 0 THEN GoMergeFrom(collected, i + 1, a, finalPoints)
    ELSE GoMergeFrom(collected, i + 1, a,
                     finalPoints \o collected[i].points \o SeamInterpolants(collected, i, a))

GoMergeResults(collected, a) == GoMergeFrom(collected, 0, a, <<>>)

\* downsampleComplex up to the collection loop
GoEnter ==
    /\ entry = "downsampleComplexGo" /\ dsPc = "start"
    /\ IF Len(dsLinks) < ParallelMinLinks
       THEN /\ dsResult' = DownsampleSerial(dsLinks, dsOutputSize, dsAggr, Num(goNaNInt))
            /\ dsPc' = "done"
            /\ UNCHANGED <<goWorkers, goResults, goClosed, goCollected>>
       ELSE IF IsRelativelyClose(ViewBounds(dsLinks), dsAggr)
       THEN /\ dsResult' = AverageAll(dsLinks)
            /\ dsPc' = "done"
            /\ UNCHANGED <<goWorkers, goResults, goClosed, goCollected>>
       ELSE /\ goWorkers' = [w \in 0..(numCPU - 1) |-> "running"]
            /\ goResults' = <<>>
            /\ goClosed' = FALSE
            /\ goCollected' = [w \in 0..(numCPU - 1) |-> ZeroChunk]
            /\ dsPc' = "collect"
            /\ UNCHANGED dsResult
    /\ UNCHANGED <<extVars, envVars, rsVars, spVars, dsInputs, numCPU, goNaNInt, goOutOfOrder,
                   dsGroup, dsDownsampled, dsI>>

\* go func(worker, start, end): group the chunk, send the result, wg.Done()
GoWorker(w) ==
    /\ dsPc = "collect" /\ w \in DOMAIN goWorkers /\ goWorkers[w] = "running"
    /\ LET chunkSize == GoChunkSize(Len(dsLinks), numCPU)
       IN goResults' = Append(goResults,
             GoChunkResult(w, dsLinks, GoStart(w, chunkSize),
                           GoEnd(w, chunkSize, Len(dsLinks)),
                           Params(dsLinks, dsOutputSize, dsAggr, Num(goNaNInt))))
    /\ goWorkers' = [goWorkers EXCEPT ![w] = "done"]
    /\ goOutOfOrder' = (goOutOfOrder \/ \E u \in 0..(w - 1) : goWorkers[u] = "running")
    /\ UNCHANGED <<extVars, envVars, rsVars, spVars, dsInputs, jsVars, numCPU, goNaNInt,
                   goClosed, goCollected>>

GoCloserEarly ==
    /\ dsPc = "collect" /\ ~goClosed
    /\ goClosed' = TRUE
    /\ UNCHANGED <<extVars, envVars, rsVars, spVars, dsInputs, jsVars, numCPU, goNaNInt,
                   goWorkers, goResults, goCollected, goOutOfOrder>>

\* go func() { wg.Wait(); close(results) }
GoCloser ==
    /\ dsPc = "collect" /\ ~goClosed
    /\ \A w \in DOMAIN goWorkers : goWorkers[w] = "done"
    /\ goClosed' = TRUE
    /\ UNCHANGED <<extVars, envVars, rsVars, spVars, dsInputs, jsVars, numCPU, goNaNInt,
                   goWorkers, goResults, goCollected, goOutOfOrder>>

\* for result := range results: one received result
GoCollect ==
    /\ dsPc = "collect" /\ goResults # <<>>
    /\ goCollected' = GoStore(goCollected, Head(goResults))
    /\ goResults' = Tail(goResults)
    /\ UNCHANGED <<extVars, envVars, rsVars, spVars, dsInputs, jsVars, numCPU, goNaNInt,
                   goWorkers, goClosed, goOutOfOrder>>

\* the range loop ends on the closed, drained channel; merge and return
GoMerge ==
    /\ dsPc = "collect" /\ goClosed /\ goResults = <<>>
    /\ dsResult' = GoMergeResults(goCollected, dsAggr)
    /\ dsPc' = "done"
    /\ UNCHANGED <<extVars, envVars, rsVars, spVars, dsInputs, numCPU, goNaNInt, goWorkers,
                   goResults, goClosed, goCollected, goOutOfOrder, dsGroup,
                   dsDownsampled, dsI>>

\* ------------------------------------------------------------ specification
DSCallIdle ==
    /\ dsResult = <<>> /\ dsI = 0 /\ dsGroup = NoGroup /\ dsDownsampled = <<>>
    /\ goWorkers = NoWorkers /\ goResults = <<>> /\ goClosed = FALSE
    /\ goCollected = NoWorkers /\ goOutOfOrder = FALSE

DSIdle ==
    /\ dsLinks = <<>> /\ dsOutputSize = MinOut /\ dsAggr = 0 /\ dsPc = "idle"
    /\ numCPU = 1 /\ goNaNInt = 0
    /\ DSCallIdle

LinkVals == {[re |-> x, im |-> y] : x \in {0, FarX}, y \in {0, 1}}
LinkSeqs == UNION {[1..n -> LinkVals] : n \in 0..MaxLen}

\* int(NaN) is implementation-specific in Go: the minimum integer on amd64, 0 on arm64
MinInt == -2147483647
GoNaNInts == {0, MinInt}

HasFlatAxis(links) ==
    /\ links # <<>>
    /\ \/ ViewBounds(links).minX = ViewBounds(links).maxX
       \/ ViewBounds(links).minY = ViewBounds(links).maxY

InitDown ==
    /\ ExtIdle
    /\ entry \in {"downsampleComplexJS", "downsampleComplexGo"}
    /\ hc = 0 /\ imagPi = 0 /\ failures = 0
    /\ dsLinks \in LinkSeqs
    /\ dsOutputSize \in {MinOut, MaxOut}
    /\ dsAggr \in 0..MaxAggr
    /\ dsPc = "start"
    /\ numCPU \in (IF entry = "downsampleComplexGo" THEN 1..MaxCPU ELSE {1})
    /\ goNaNInt \in (IF entry = "downsampleComplexGo" /\ HasFlatAxis(dsLinks)
                     THEN GoNaNInts ELSE {0})
    /\ DSCallIdle
    /\ RSIdle
    /\ SPIdle

NextDown ==
    \/ JSStart
    \/ JSStep
    \/ JSFlush
    \/ GoEnter
    \/ \E w \in 0..MaxCPU : GoWorker(w)
    \/ GoCloser
    \/ GoCollect
    \/ GoMerge

SpecDown == InitDown /\ [][NextDown]_vars

TauVals == {-1, 0} \cup {2 * n * n : n \in (MaxV - 2)..MaxV}

InitSeries ==
    /\ ExtIdle
    /\ entry = "reimannSiegel"
    /\ hc \in 0..MaxHC
    /\ imagPi \in TauVals
    /\ failures = 0
    /\ rsPc = "start" /\ rsWorkers = NoWorkers /\ rsJob = NoWorkers
    /\ rsReply = NoWorkers /\ rsPromises = NoWorkers /\ rsResults = NoWorkers
    /\ rsOutOfOrder = FALSE /\ rsAllTerms = <<>> /\ rsSum = 0
    /\ rsZeta = ZetaValue(0, 0)
    /\ SPIdle
    /\ DSIdle

InitSpiral ==
    /\ ExtIdle
    /\ entry \in {"calculateSpiralParallel", "calculateSpiral"}
    /\ hc \in 0..MaxHC
    /\ imagPi \in -1..(MaxN - 1)
    /\ failures = 0
    /\ spDisp \in [1..TotalRange(imagPi) -> DispVals]
    /\ spPc = "start" /\ spWorkers = NoWorkers
    /\ spChunk = NoWorkers /\ spReply = NoWorkers /\ spPromises = NoWorkers
    /\ spOutOfOrder = FALSE /\ spPoints = <<>> /\ spScale = [min |-> 0, max |-> 0]
    /\ spZeta = ZetaValue(0, 0)
    /\ RSIdle
    /\ DSIdle

NextSeries ==
    \/ RSDispatch
    \/ \E i \in 0..(MinSeriesWorkers + MaxHC) : RSWorkerRun(i)
    \/ \E i \in 0..(MinSeriesWorkers + MaxHC) : RSOnMessage(i)
    \/ RSContinue

NextSpiral ==
    \/ SPDispatch
    \/ \E i \in 0..(DefaultConcurrency + MaxHC) : SPWorkerRun(i)
    \/ \E i \in 0..(DefaultConcurrency + MaxHC) : SPOnMessage(i)
    \/ SPContinue
    \/ SPReturn
    \/ SerialStart
    \/ SerialLoop

SpecSeries == InitSeries /\ [][NextSeries]_vars
SpecSpiral == InitSpiral /\ [][NextSpiral]_vars

\* any one call of the three components
InitAll == InitSeries \/ InitSpiral \/ InitDown
NextAll == NextSeries \/ NextSpiral \/ NextDown
Spec == InitAll /\ [][NextAll]_vars

\* the parallel JavaScript calls with workers that may crash
InitFail ==
    \/ InitSeries /\ hc = 0 /\ imagPi = 2 * MaxV * MaxV
    \/ InitSpiral /\ entry = "calculateSpiralParallel"

NextFail ==
    \/ RSDispatch
    \/ \E i \in 0..(MinSeriesWorkers + MaxHC) : RSWorkerRun(i)
    \/ \E i \in 0..(MinSeriesWorkers + MaxHC) : RSWorkerFail(i)
    \/ \E i \in 0..(MinSeriesWorkers + MaxHC) : RSOnMessage(i)
    \/ RSContinue
    \/ SPDispatch
    \/ \E i \in 0..(DefaultConcurrency + MaxHC) : SPWorkerRun(i)
    \/ \E i \in 0..(DefaultConcurrency + MaxHC) : SPWorkerFail(i)
    \/ \E i \in 0..(DefaultConcurrency + MaxHC) : SPOnMessage(i)
    \/ SPContinue
    \/ SPReturn

SpecFail == InitFail /\ [][NextFail]_vars

\* ==================================================================== claims

\* ------------------------------------------------- downsampling of diagonal inputs
\* points on a diagonal, so that a sequence spans several pixels on both axes
GroupLinks == {[re |-> FarX * c, im |-> c] : c \in 0..MaxCoord}
GroupLinkSeqs == UNION {[1..n -> GroupLinks] : n \in 0..MaxLen}

InitGroup ==
    /\ ExtIdle
    /\ entry \in {"downsampleComplexJS", "downsampleComplexGo"}
    /\ hc = 0 /\ imagPi = 0 /\ failures = 0
    /\ dsLinks \in GroupLinkSeqs
    /\ dsOutputSize \in {MinOut, MaxOut}
    /\ dsAggr \in 0..MaxAggr
    /\ dsPc = "start"
    /\ numCPU \in (IF entry = "downsampleComplexGo" THEN 1..MaxCPU ELSE {1})
    /\ goNaNInt \in (IF entry = "downsampleComplexGo" /\ HasFlatAxis(dsLinks)
                     THEN GoNaNInts ELSE {0})
    /\ DSCallIdle
    /\ RSIdle
    /\ SPIdle

SpecGroup == InitGroup /\ [][NextDown]_vars

\* a call that can take a step takes one: the loop is synchronous code and the Go
\* scheduler runs every goroutine that is ready
\* the caller's invocation: downsampleComplex(links, outputSize, aggressiveness)
DSCall ==
    /\ entry = "none" /\ dsPc = "idle"
    /\ entry' \in {"downsampleComplexJS", "downsampleComplexGo"}
    /\ dsLinks' \in GroupLinkSeqs
    /\ dsOutputSize' \in {MinOut, MaxOut}
    /\ dsAggr' \in 0..MaxAggr
    /\ dsPc' = "start"
    /\ numCPU' \in (IF entry' = "downsampleComplexGo" THEN 1..MaxCPU ELSE {1})
    /\ goNaNInt' \in (IF entry' = "downsampleComplexGo" /\ HasFlatAxis(dsLinks')
                      THEN GoNaNInts ELSE {0})
    /\ UNCHANGED <<extVars, hc, imagPi, failures, rsVars, spVars, dsResult, dsI, dsGroup,
                   dsDownsampled, goWorkers, goResults, goClosed, goCollected,
                   goOutOfOrder>>

InitCall ==
    /\ ExtIdle
    /\ entry = "none"
    /\ hc = 0 /\ imagPi = 0 /\ failures = 0
    /\ DSIdle
    /\ RSIdle
    /\ SPIdle

NextCall == DSCall \/ NextDown

\* ENABLED <<NextDown>>_vars: a call that has started and has not returned
DownReady == dsPc \in {"start", "loop", "collect"}

\* WF_vars(NextDown), with its ENABLED written as the state predicate DownReady
DownFair == []<>~DownReady \/ []<><<NextDown>>_vars

SpecGroupFair == InitCall /\ [][NextCall]_vars /\ DownFair

\* ------------------------------------------------- the fast path in floating point
\* The sums and the quotient of the fast path are IEEE operations: each result is rounded
\* to the nearest representable value, ties to even. The format here keeps FloatBits
\* significant bits; values are exact fractions <<num, den>>.
FloatExps == (0 - FloatBits - 2)..(FloatBits + 2)

\* q / 2^e
Scaled(q, e) == IF e >= 0 THEN Rat(q[1], q[2] * 2 ^ e) ELSE Rat(q[1] * 2 ^ (0 - e), q[2])

\* the integer nearest to m >= 0, ties to even
RoundHalfEven(m) ==
    LET fl == m[1] \div m[2]
        twice == 2 * (m[1] % m[2])
    IN IF twice > m[2] \/ (twice = m[2] /\ fl % 2 = 1) THEN fl + 1 ELSE fl

\* q >= 0 rounded to FloatBits significant bits
FRound(q) ==
    IF q[1] = 0 THEN q
    ELSE LET e == CHOOSE x \in FloatExps :
                     /\ 2 ^ (FloatBits - 1) * Scaled(q, x)[2] <= Scaled(q, x)[1]
                     /\ Scaled(q, x)[1] < 2 ^ FloatBits * Scaled(q, x)[2]
         IN Scaled(<<RoundHalfEven(Scaled(q, e)), 1>>, 0 - e)

\* for (const link of links) { sum.real += link.real; sum.imag += link.imag; }
RECURSIVE FloatSumFrom(_, _, _)
FloatSumFrom(links, i, sum) ==
    IF i > Len(links) THEN sum
    ELSE FloatSumFrom(links, i + 1,
            Cx(FRound(RatAdd(sum.re, Rat(links[i].re, 1))),
               FRound(RatAdd(sum.im, Rat(links[i].im, 1)))))

\* return [{ real: sum.real / links.length, imag: sum.imag / links.length }]
FloatAverageAll(links) ==
    LET sum == FloatSumFrom(links, 1, Cx(<<0, 1>>, <<0, 1>>))
    IN <<Cx(FRound(Rat(sum.re[1], sum.re[2] * Len(links))),
            FRound(Rat(sum.im[1], sum.im[2] * Len(links))))>>

\* downsampleComplex on an input that takes the fast path, its arithmetic rounded
FloatFastPath ==
    /\ entry = "downsampleComplexFloat" /\ dsPc = "start"
    /\ Len(dsLinks) > 0 /\ IsRelativelyClose(ViewBounds(dsLinks), dsAggr)
    /\ dsResult' = FloatAverageAll(dsLinks)
    /\ dsPc' = "done"
    /\ UNCHANGED <<extVars, envVars, rsVars, spVars, dsInputs, goVars, dsGroup, dsDownsampled, dsI>>

\* representable coordinates, and inputs of points that are equal or one unit apart
FloatVals == 1..(2 ^ FloatBits - 1)
FloatLinks == {[re |-> x, im |-> y] : x \in FloatVals, y \in FloatVals}
FloatLinkSeqs ==
    {[j \in 1..n |-> p] : n \in 1..MaxLen, p \in FloatLinks}
    \cup {[j \in 1..n |-> IF j < n THEN p ELSE [re |-> p.re + 1, im |-> p.im]] :
             n \in 2..MaxLen, p \in FloatLinks}

InitFloat ==
    /\ ExtIdle
    /\ entry = "downsampleComplexFloat"
    /\ hc = 0 /\ imagPi = 0 /\ failures = 0
    /\ dsLinks \in FloatLinkSeqs
    /\ dsOutputSize \in {MinOut, MaxOut}
    /\ dsAggr \in 0..MaxAggr
    /\ IsRelativelyClose(ViewBounds(dsLinks), dsAggr)
    /\ dsPc = "start"
    /\ numCPU = 1 /\ goNaNInt = 0
    /\ DSCallIdle
    /\ RSIdle
    /\ SPIdle

NextFloat == FloatFastPath

SpecFloat == InitFloat /\ [][NextFloat]_vars

\* ---- C1 ----
\* C1: the points calculateSpiralParallel returns are, element by element, the points
\* of the serial calculateSpiral: the origin, then point j = d(1) + ... + d(j).
RECURSIVE PrefixSum(_, _)
PrefixSum(disp, j) ==
    IF j = 0 THEN [x |-> 0, y |-> 0]
    ELSE LET r == PrefixSum(disp, j - 1)
         IN [x |-> r.x + disp[j][1], y |-> r.y + disp[j][2]]

SpiralMerged == entry = "calculateSpiralParallel" /\ spPc \in {"awaitZeta", "done"}

C1_ParallelSpiralEqualsSerial ==
    SpiralMerged =>
        /\ spPoints = SerialSpiral(TotalRange(imagPi), spDisp).points
        /\ Len(spPoints) = TotalRange(imagPi) + 1
        /\ \A j \in 0..TotalRange(imagPi) :
              /\ spPoints[j + 1].x = PrefixSum(spDisp, j).x
              /\ spPoints[j + 1].y = PrefixSum(spDisp, j).y

\* a finished parallel spiral of MaxN terms over two workers: chunk 1 needs chunk 0's total
C1_Witness ==
    /\ SpiralMerged /\ spPc = "done"
    /\ TotalRange(imagPi) = MaxN /\ numWorkers(hc) = 2
    /\ spPoints[Len(spPoints)] # Origin

\* ---- C5 ----
\* C5: for t > 0 the parallel main sum is the serial sum over k = 1..v: the terms the
\* workers evaluated are exactly term(1), ..., term(v), each once, and the subtotals add up.
C5_ParallelSeriesEqualsSerial ==
    (entry = "reimannSiegel" /\ rsPc = "done" /\ imagPi >= 0) =>
        /\ rsAllTerms = [n \in 1..VOf(imagPi).val |-> Term(n)]
        /\ rsSum = SerialMainSum(imagPi)
        /\ rsZeta = ZetaValue(imagPi, SerialMainSum(imagPi))

\* a finished call with v = MaxV terms: chunks of two terms, a short chunk and empty chunks
C5_Witness ==
    /\ entry = "reimannSiegel" /\ rsPc = "done"
    /\ VOf(imagPi) = Num(MaxV) /\ hc = 0
    /\ Len(rsAllTerms) = MaxV

\* ---- C2 ----
DownDone == entry \in {"downsampleComplexJS", "downsampleComplexGo"} /\ dsPc = "done"

\* C2 as stated: for a non-empty input the output is never longer than the input.
C2_OutputNoLongerThanInput ==
    (DownDone /\ Len(dsLinks) > 0) => Len(dsResult) <= Len(dsLinks)

\* the steps of the largest pixel gap of the grid, its diagonal sqrt(2) * outputSize
MaxStepsPerGap(outputSize, a) ==
    IF 2 * a > 7
    THEN (ISqrt((2 * outputSize * outputSize) \div 128) * (2 - (2 * a - 7))) \div 2
    ELSE ISqrt((2 * outputSize * outputSize) \div (4 ^ a))

\* C2 amended: the output holds at most one mean per input point plus the interpolants,
\* at most floor(sqrt(2) * outputSize / 2^min(a, 3.5)) of them per group boundary:
\* length <= n + (n - 1) * that number, which can exceed n.
C2_OutputLengthBound ==
    (DownDone /\ Len(dsLinks) > 0) =>
        /\ Len(dsResult) >= 1
        /\ Len(dsResult) <= Len(dsLinks)
               + (Len(dsLinks) - 1) * MaxStepsPerGap(dsOutputSize, dsAggr)

\* a finished call whose output is longer than its input, at the bound
C2_Witness ==
    /\ DownDone /\ Len(dsLinks) = 2
    /\ Len(dsResult) = 2 + MaxStepsPerGap(dsOutputSize, dsAggr)
    /\ Len(dsResult) > Len(dsLinks)

\* ---- C3 ----
GoParallelDone ==
    entry = "downsampleComplexGo" /\ dsPc = "done" /\ goWorkers # NoWorkers

\* C3: the parallel downsample returns the output of the serial downsample of the same input.
C3_ParallelDownsampleEqualsSerial ==
    (entry = "downsampleComplexGo" /\ dsPc = "done") =>
        dsResult = DownsampleSerial(dsLinks, dsOutputSize, dsAggr, Num(goNaNInt))

\* ---- C8 ----
GoParams == Params(dsLinks, dsOutputSize, dsAggr, Num(goNaNInt))

\* the pixel of the first point of chunk w
FirstPixelOfChunk(w) ==
    pixelForLink(dsLinks[GoStart(w, GoChunkSize(Len(dsLinks), numCPU)) + 1], GoParams)

ExceedsThreshold(d2, a) == ~d2.nan /\ ExceedsInterpolationThreshold(d2.val, a)

\* C8: between adjacent non-empty chunk results k and k+1 the merge inserts interpolants
\* iff the gap from chunk k's last recorded pixel to the pixel of chunk k+1's first point
\* exceeds the interpolation threshold.
C8_SeamTestUsesFirstPixel ==
    GoParallelDone =>
        \A k \in 0..(numCPU - 2) :
            (Len(goCollected[k].points) > 0 /\ Len(goCollected[k + 1].points) > 0) =>
                ((SeamInterpolants(goCollected, k, dsAggr) # <<>>)
                 <=> ExceedsThreshold(
                        Gap2(FirstPixelOfChunk(k + 1).px, FirstPixelOfChunk(k + 1).py,
                             goCollected[k].lastPx, goCollected[k].lastPy), dsAggr))

\* ---- C9 ----
RatSub(p, q) == RatAdd(p, Rat(-q[1], q[2]))
RatLess(p, q) == p[1] * q[2] < q[1] * p[2]
RatZero == <<0, 1>>

\* the arithmetic mean of links[i..j]
RunMean(links, i, j) ==
    LET run == SubSeq(links, i, j)
        sum == SumLinks(run)
    IN Cx(Rat(sum.re, Len(run)), Rat(sum.im, Len(run)))

\* the means of the contiguous runs of the input; a run of one is an input point
RunMeans(links) ==
    {RunMean(links, r[1], r[2]) :
        r \in {q \in (1..Len(links)) \X (1..Len(links)) : q[1] <= q[2]}}

\* p = A + t (B - A) for some 0 < t < 1
StrictlyBetween(p, A, B) ==
    LET ux == RatSub(p.re, A.re)
        uy == RatSub(p.im, A.im)
        vx == RatSub(B.re, A.re)
        vy == RatSub(B.im, A.im)
        dot == RatAdd(RatMul(ux, vx), RatMul(uy, vy))
        vv == RatAdd(RatMul(vx, vx), RatMul(vy, vy))
    IN /\ RatSub(RatMul(ux, vy), RatMul(uy, vx)) = RatZero
       /\ RatLess(RatZero, dot)
       /\ RatLess(dot, vv)

MeanOrInterpolant(p, links) ==
    \/ p \in RunMeans(links)
    \/ \E A \in RunMeans(links) : \E B \in RunMeans(links) : StrictlyBetween(p, A, B)

\* C9: every output point is an input point, the mean of a contiguous run of input
\* points, or a linear interpolant between two such means.
C9_OutputPointsAreMeansOrInterpolants ==
    DownDone => \A n \in 1..Len(dsResult) : MeanOrInterpolant(dsResult[n], dsLinks)

\* a finished parallel call whose output holds a mean of several points and a seam interpolant
C9_Witness ==
    /\ GoParallelDone
    /\ \E k \in 0..(numCPU - 2) : SeamInterpolants(goCollected, k, dsAggr) # <<>>
    /\ \E n \in 1..Len(dsResult) : dsResult[n] \notin {CxOfLink(dsLinks[j]) : j \in 1..Len(dsLinks)}
    /\ \E n \in 1..Len(dsResult) : dsResult[n] \notin RunMeans(dsLinks)

\* ---- C4 ----
\* what the merges produce when every result sits in the slot of its own chunk
SeriesInOrder == [i \in DOMAIN rsJob |-> Defined(RiemannWorker(rsJob[i]))]
SpiralInOrder ==
    [j \in 1..Cardinality(DOMAIN spChunk) |->
        [chunkIndex |-> j - 1, chunkResult |-> SpiralWorker(spChunk[j - 1], spDisp)]]
GoChunkOf(w) ==
    LET r == GoChunkResult(w, dsLinks, GoStart(w, GoChunkSize(Len(dsLinks), numCPU)),
                           GoEnd(w, GoChunkSize(Len(dsLinks), numCPU), Len(dsLinks)), GoParams)
    IN [points |-> r.points, lastPoint |-> r.lastPoint, lastPx |-> r.lastPx, lastPy |-> r.lastPy]
GoInOrder == [w \in DOMAIN goWorkers |-> GoChunkOf(w)]

\* C4: whatever the completion order, a result is stored in the slot of its chunk index
\* and the merged output (series sum and terms, spiral points, downsampled points) is the
\* one built from the chunk results taken in chunk-index order.
C4_MergeInChunkOrder ==
    /\ \A i \in DOMAIN rsResults :
          rsResults[i].defined => rsResults[i] = SeriesInOrder[i]
    /\ (entry = "reimannSiegel" /\ rsPc = "done") =>
          /\ rsSum = 2 * Combine(SeriesInOrder).sum
          /\ rsAllTerms = Combine(SeriesInOrder).allTerms
    /\ (entry = "calculateSpiralParallel" /\ spPc \in {"awaitZeta", "done"}) =>
          spPoints = MergeSpiral(SpiralInOrder).points
    /\ (entry = "downsampleComplexGo" /\ dsPc = "collect") =>
          \A w \in DOMAIN goCollected :
              goCollected[w] # ZeroChunk => goCollected[w] = GoChunkOf(w)
    /\ GoParallelDone => dsResult = GoMergeResults(GoInOrder, dsAggr)

\* a series call that finished after a later chunk was delivered before an earlier one
C4_Witness ==
    /\ entry = "reimannSiegel" /\ rsPc = "done" /\ rsOutOfOrder
    /\ \E i \in DOMAIN rsResults : \E j \in DOMAIN rsResults :
          i < j /\ rsResults[i].data.terms # <<>> /\ rsResults[j].data.terms # <<>>

\* ---- C6 ----
RangeSeq(from, to) == [k \in 1..Max(to - from, 0) |-> from + k - 1]

RECURSIVE ConcatRanges(_, _, _)
ConcatRanges(from, to, i) ==
    IF i \notin DOMAIN from THEN <<>>
    ELSE RangeSeq(from[i], to[i]) \o ConcatRanges(from, to, i + 1)

RECURSIVE ConcatChunks(_, _)
ConcatChunks(chunks, i) ==
    IF i \notin DOMAIN chunks THEN <<>> ELSE chunks[i] \o ConcatChunks(chunks, i + 1)

\* C6: the chunks handed to the workers, taken in chunk-index order, enumerate the whole
\* range exactly once (term indices 0..v-1, iteration values 1..N, point indices 0..n-1):
\* they are pairwise disjoint, contiguous and exhaustive.
C6_ChunksPartitionTheRange ==
    /\ (entry = "reimannSiegel" /\ rsPc \in {"await", "done"} /\ ~VOf(imagPi).nan) =>
          ConcatRanges([i \in DOMAIN rsJob |-> rsJob[i].startK.val],
                       [i \in DOMAIN rsJob |-> rsJob[i].endK.val], 0)
            = RangeSeq(0, VOf(imagPi).val)
    /\ (entry = "calculateSpiralParallel" /\ spPc \in {"await", "awaitZeta", "done"}) =>
          ConcatChunks(spChunk, 0) = IterationValues(TotalRange(imagPi))
    /\ (entry = "downsampleComplexGo" /\ goWorkers # NoWorkers) =>
          LET chunkSize == GoChunkSize(Len(dsLinks), numCPU)
          IN ConcatRanges([w \in DOMAIN goWorkers |-> GoStart(w, chunkSize)],
                          [w \in DOMAIN goWorkers |-> GoEnd(w, chunkSize, Len(dsLinks))], 0)
               = RangeSeq(0, Len(dsLinks))

\* a dispatched series call whose last chunk is clamped and whose trailing chunks are empty
C6_Witness ==
    /\ entry = "reimannSiegel" /\ rsPc = "await" /\ ~VOf(imagPi).nan
    /\ \E i \in DOMAIN rsJob :
          /\ rsJob[i].startK.val < rsJob[i].endK.val
          /\ rsJob[i].endK.val < rsJob[i].startK.val + NCeilDiv(VOf(imagPi), Cardinality(DOMAIN rsJob)).val
    /\ \E i \in DOMAIN rsJob : rsJob[i].startK.val > rsJob[i].endK.val

\* ---- C7 ----
\* a worker has failed and every other worker has delivered: nothing is left to happen
RSQuiescentAfterFailure ==
    /\ entry = "reimannSiegel" /\ rsWorkers # NoWorkers
    /\ \E i \in DOMAIN rsWorkers : rsWorkers[i] = "failed"
    /\ \A i \in DOMAIN rsWorkers : rsWorkers[i] \in {"failed", "delivered"}
SPQuiescentAfterFailure ==
    /\ entry = "calculateSpiralParallel" /\ spWorkers # NoWorkers
    /\ \E i \in DOMAIN spWorkers : spWorkers[i] = "failed"
    /\ \A i \in DOMAIN spWorkers : spWorkers[i] \in {"failed", "terminated"}

\* C7: when a worker fails, the call ends in failure: it returns no result built from
\* the remaining chunks and it is not left pending once the other workers have delivered.
C7_WorkerFailureFailsTheCall ==
    /\ (\E i \in DOMAIN rsWorkers : rsWorkers[i] = "failed") => rsPc # "done"
    /\ (\E i \in DOMAIN spWorkers : spWorkers[i] = "failed") => spPc \notin {"awaitZeta", "done"}
    /\ RSQuiescentAfterFailure => rsPc = "rejected"
    /\ SPQuiescentAfterFailure => spPc = "rejected"

\* ---- C10 ----
\* C10: a merged output exists only when every worker has delivered its result: all
\* promises resolved (series, spiral), all goroutines done and the channel closed and
\* drained (downsample).
C10_MergeAfterAllDelivered ==
    /\ (entry = "reimannSiegel" /\ rsPc = "done") =>
          \A i \in DOMAIN rsJob : rsPromises[i] /\ rsResults[i].defined
    /\ (entry = "calculateSpiralParallel" /\ spPc \in {"awaitZeta", "done"}) =>
          \A i \in DOMAIN spChunk : spPromises[i].defined /\ spWorkers[i] = "terminated"
    /\ GoParallelDone =>
          /\ \A w \in DOMAIN goWorkers : goWorkers[w] = "done"
          /\ goClosed /\ goResults = <<>>

\* a parallel downsample that merged after goroutines finished out of chunk order
C10_Witness ==
    /\ GoParallelDone /\ goOutOfOrder /\ Len(dsResult) > 1
    /\ \A w \in DOMAIN goWorkers : goWorkers[w] = "done"

\* ---- C11 ----
\* A + t (B - A)
PointAt(A, B, t) ==
    Cx(RatAdd(A.re, RatMul(t, RatSub(B.re, A.re))),
       RatAdd(A.im, RatMul(t, RatSub(B.im, A.im))))

\* the points an iteration of the grouping loop pushed after the flushed mean
PushedInterpolants == SubSeq(dsDownsampled', Len(dsDownsampled) + 2, Len(dsDownsampled'))

C12_NonPositiveTauRejected ==
    (entry = "reimannSiegel" /\ imagPi < 0) =>
        /\ rsWorkers = NoWorkers
        /\ rsPc \notin {"await", "done"}

\* ---- C13 ----
WorkerCount(workers) == Cardinality(DOMAIN workers)

SpiralReturned == entry \in {"calculateSpiral", "calculateSpiralParallel"} /\ spPc = "done"

\* C14: the point list returned by calculateSpiral and by calculateSpiralParallel starts
\* with the origin, pushed once and not once per chunk: it holds N + 1 points, and only
\* the origin when N = 0.
C14_OriginPrependedOnce ==
    SpiralReturned =>
        /\ Len(spPoints) = TotalRange(imagPi) + 1
        /\ spPoints[1] = Origin
        /\ (TotalRange(imagPi) = 0 => spPoints = <<Origin>>)

\* a parallel spiral of no terms returned from several empty chunks
C14_Witness ==
    /\ SpiralReturned /\ entry = "calculateSpiralParallel"
    /\ TotalRange(imagPi) = 0 /\ WorkerCount(spWorkers) >= 2
    /\ \A i \in DOMAIN spChunk : spChunk[i] = <<>>
    /\ spPoints = <<Origin>>

\* ---- C15 ----
\* C15: downsample of a single point p returns the one-element sequence <<p>>, for every
\* output grid size and aggressiveness.
C15_SinglePointReturned ==
    (DownDone /\ Len(dsLinks) = 1) => dsResult = <<CxOfLink(dsLinks[1])>>

\* a finished call on one point away from the origin
C15_Witness ==
    /\ DownDone /\ Len(dsLinks) = 1
    /\ dsLinks[1] = [re |-> FarX, im |-> 1]
    /\ dsResult = <<CxOfLink(dsLinks[1])>>

\* ---- C16 ----
AllIdentical(links) == links # <<>> /\ \A j \in 1..Len(links) : links[j] = links[1]

\* C16: for a non-empty input of identical points downsample returns exactly one point,
\* equal to the common value.
C16_IdenticalPointsReturnThatPoint ==
    (entry = "downsampleComplexFloat" /\ dsPc = "done" /\ AllIdentical(dsLinks)) =>
        dsResult = <<CxOfLink(dsLinks[1])>>

\* ---- C17 ----
\* C17: downsample of the empty sequence returns the empty sequence, raises no error and
\* starts no worker.
C17_EmptyInputReturnedUnchanged ==
    (entry \in {"downsampleComplexJS", "downsampleComplexGo"} /\ dsLinks = <<>>) =>
        /\ dsPc \in {"start", "done"}
        /\ goWorkers = NoWorkers /\ goResults = <<>>
        /\ (dsPc = "done" => dsResult = dsLinks)

\* the parallel entry point returned from an empty input on a machine with several CPUs
C17_Witness ==
    /\ entry = "downsampleComplexGo" /\ dsPc = "done" /\ dsLinks = <<>>
    /\ numCPU > 1 /\ dsResult = <<>> /\ goWorkers = NoWorkers

\* ---- C18 ----
\* C18: every index whose logarithm is taken is an integer >= 1: the iteration values of
\* every spiral chunk, the indices 1..N of the serial spiral loop, and the indices k + 1
\* of the terms a series worker evaluates, k >= 0; index 0 is never evaluated.
C18_LogIndexAtLeastOne ==
    /\ \A i \in DOMAIN spChunk : \A j \in 1..Len(spChunk[i]) : spChunk[i][j] >= 1
    /\ (entry = "calculateSpiral" /\ spPc = "done") =>
          /\ Len(spPoints) = TotalRange(imagPi) + 1
          /\ \A j \in 1..TotalRange(imagPi) :
                /\ j \in DOMAIN spDisp
                /\ spPoints[j + 1].x = spPoints[j].x + spDisp[j][1]
                /\ spPoints[j + 1].y = spPoints[j].y + spDisp[j][2]
    /\ \A i \in DOMAIN rsReply :
          (rsReply[i].defined /\ rsReply[i].data.terms # <<>>) =>
             LET r == rsReply[i].data
             IN /\ ~r.startK.nan /\ r.startK.val >= 0
                /\ \A j \in 1..Len(r.terms) :
                      r.startK.val + j >= 1 /\ r.terms[j] = Term(r.startK.val + j)

\* a dispatched parallel spiral: the first chunk starts at 1, a later chunk is not empty
C18_Witness ==
    /\ entry = "calculateSpiralParallel" /\ spPc = "await"
    /\ spChunk[0] # <<>> /\ spChunk[0][1] = 1
    /\ \E i \in DOMAIN spChunk : i > 0 /\ spChunk[i] # <<>> /\ spChunk[i][1] > 1

\* ---- C19 ----
\* max(range_x, range_y) / max(0.01, max(range_x, range_y)) <= 0.0001 * 5^a
\* (0.03 + 0.02 t above 3.5), over the whole sequence
WholeSpreadWithin(links, a) ==
    LET xs == {links[j].re : j \in 1..Len(links)}
        ys == {links[j].im : j \in 1..Len(links)}
        range == Max(SetMax(xs) - SetMin(xs), SetMax(ys) - SetMin(ys))
        base == Max(BaseRangeUnits, range)
    IN IF 2 * a > 7 THEN 100 * range <= (3 + 2 * (2 * a - 7)) * base
       ELSE 10000 * range <= (5 ^ a) * base

\* C19: when the relative spread of the whole sequence is within maxRelativeSpread,
\* downsample returns one point, the mean of all input points, without grouping; the
\* parallel entry point decides this on the whole sequence before any chunk is started.
C19_FastPathReturnsMeanOfAll ==
    (entry \in {"downsampleComplexJS", "downsampleComplexGo"}
     /\ dsLinks # <<>> /\ WholeSpreadWithin(dsLinks, dsAggr)) =>
        /\ dsPc \in {"start", "done"}
        /\ dsGroup = NoGroup /\ dsDownsampled = <<>> /\ dsI = 0
        /\ goWorkers = NoWorkers /\ goResults = <<>>
        /\ (dsPc = "done" => dsResult = <<RunMean(dsLinks, 1, Len(dsLinks))>>)

\* the parallel entry point collapsed a sequence of distinct close points to their mean
C19_Witness ==
    /\ entry = "downsampleComplexGo" /\ dsPc = "done" /\ numCPU > 1
    /\ Len(dsLinks) >= 3 /\ ~AllIdentical(dsLinks) /\ WholeSpreadWithin(dsLinks, dsAggr)
    /\ dsResult = <<RunMean(dsLinks, 1, Len(dsLinks))>>
    /\ dsResult[1] \notin {CxOfLink(dsLinks[j]) : j \in 1..Len(dsLinks)}

\* ---- C20 ----
\* what downsampleComplex returns for these inputs on a machine with nCPU CPUs
GoDownsample(links, outputSize, a, nCPU, ofNaN) ==
    IF Len(links) < ParallelMinLinks THEN DownsampleSerial(links, outputSize, a, ofNaN)
    ELSE IF IsRelativelyClose(ViewBounds(links), a) THEN AverageAll(links)
    ELSE LET chunkSize == GoChunkSize(Len(links), nCPU)
             P == Params(links, outputSize, a, ofNaN)
             res(w) == GoChunkResult(w, links, GoStart(w, chunkSize),
                                     GoEnd(w, chunkSize, Len(links)), P)
         IN GoMergeResults([w \in 0..(nCPU - 1) |->
                              [points |-> res(w).points, lastPoint |-> res(w).lastPoint,
                               lastPx |-> res(w).lastPx, lastPy |-> res(w).lastPy]], a)

\* the output of a finished call does not depend on the scheduling of its goroutines
GoOutputIndependentOfScheduling ==
    (entry = "downsampleComplexGo" /\ dsPc = "done") =>
        dsResult = GoDownsample(dsLinks, dsOutputSize, dsAggr, numCPU, Num(goNaNInt))

\* C20: the output of downsample depends only on the points, the output grid size and
\* the aggressiveness: a finished call returned what the same inputs return with any
\* other number of workers.
C20_OutputIndependentOfWorkerCount ==
    (entry = "downsampleComplexGo" /\ dsPc = "done" /\ ~HasFlatAxis(dsLinks)) =>
        \A n \in 1..MaxCPU :
            dsResult = GoDownsample(dsLinks, dsOutputSize, dsAggr, n, Num(goNaNInt))

\* ---- C21 ----
\* the pixel the running implementation computes for dsLinks[j]
PixelOf(j) ==
    pixelForLink(dsLinks[j],
                 Params(dsLinks, dsOutputSize, dsAggr,
                        IF entry = "downsampleComplexGo" THEN Num(goNaNInt) ELSE NaN))

\* both pixels are numbers and the larger axis delta between them is d
PixelsApart(j, k, d) ==
    /\ ~PixelOf(j).px.nan /\ ~PixelOf(j).py.nan /\ ~PixelOf(k).px.nan /\ ~PixelOf(k).py.nan
    /\ Max(Abs(PixelOf(j).px.val - PixelOf(k).px.val),
           Abs(PixelOf(j).py.val - PixelOf(k).py.val)) = d

LoopIteration == entry = "downsampleComplexJS" /\ dsPc = "loop" /\ dsI' = dsI + 1

\* |px - anchorX| <= 1 + 2a and |py - anchorY| <= 1 + 2a; false when a pixel is NaN
WithinSpreadOfAnchor(pix, g, a) ==
    /\ ~pix.px.nan /\ ~pix.py.nan /\ ~g.pixelX.nan /\ ~g.pixelY.nan
    /\ Abs(pix.px.val - g.pixelX.val) <= 1 + 2 * a
    /\ Abs(pix.py.val - g.pixelY.val) <= 1 + 2 * a

Joined == dsGroup'.count = dsGroup.count + 1

\* C22: a point joins the current group iff both axis deltas to the group's anchor pixel
\* are <= pixelSpreadThreshold = 1 + 2 * aggressiveness; a join updates the sum, the
\* count and the last member, keeps the anchor pixel and appends nothing to the output.
C22_JoinIffWithinSpread ==
    [][LoopIteration =>
          /\ Joined <=> WithinSpreadOfAnchor(PixelOf(dsI + 1), dsGroup, dsAggr)
          /\ Joined =>
                /\ dsGroup'.sum = [re |-> dsGroup.sum.re + dsLinks[dsI + 1].re,
                                   im |-> dsGroup.sum.im + dsLinks[dsI + 1].im]
                /\ dsGroup'.lastLink = dsLinks[dsI + 1]
                /\ dsGroup'.pixelX = dsGroup.pixelX /\ dsGroup'.pixelY = dsGroup.pixelY
                /\ dsDownsampled' = dsDownsampled
          /\ ~Joined => dsGroup'.count = 1 /\ Len(dsDownsampled') > Len(dsDownsampled)]_vars

\* a point in another pixel than the anchor has joined the group
C22_Witness ==
    /\ entry = "downsampleComplexJS" /\ dsPc = "loop" /\ dsI >= 2
    /\ dsGroup.count = dsI /\ dsGroup.lastLink = dsLinks[dsI]
    /\ ~PixelOf(dsI).px.nan /\ PixelOf(dsI).px # dsGroup.pixelX
    /\ dsDownsampled = <<>>

\* ---- C23 ----
\* gap > interpolationThreshold for gap = sqrt(d2): 1.1 * 2.5^a, 55 + 20 t above 3.5
GapExceeds(d2, a) ==
    IF 2 * a > 7 THEN d2 > (55 + 20 * (2 * a - 7)) * (55 + 20 * (2 * a - 7))
    ELSE 100 * d2 * 4 ^ a > 121 * 25 ^ a

\* floor(gap / 2^min(a, 3.5)), scaled by 1 - 0.5 t above 3.5
StepsOfGap(d2, a) ==
    IF 2 * a > 7 THEN (ISqrt(d2 \div 128) * (2 - (2 * a - 7))) \div 2
    ELSE ISqrt(d2 \div (4 ^ a))

\* the squared pixel distance from the group's anchor to pix, when it is a number
AnchorGap2(pix, g) ==
    (pix.px.val - g.pixelX.val) * (pix.px.val - g.pixelX.val)
    + (pix.py.val - g.pixelY.val) * (pix.py.val - g.pixelY.val)

GapIsNumber(pix, g) == ~pix.px.nan /\ ~pix.py.nan /\ ~g.pixelX.nan /\ ~g.pixelY.nan

\* C23: an iteration whose point does not join appends the mean of the current group,
\* then, if the pixel gap between the group's anchor and the new point exceeds the
\* interpolation threshold, the interpolants between the group's last member and the new
\* point, and starts a new group at the new point with count 1.
C23_FlushInterpolateRestart ==
    [][(LoopIteration /\ ~Joined) =>
          LET link == dsLinks[dsI + 1]
              pix == PixelOf(dsI + 1)
              mean == Cx(Rat(dsGroup.sum.re, dsGroup.count), Rat(dsGroup.sum.im, dsGroup.count))
              steps == IF GapIsNumber(pix, dsGroup)
                          /\ GapExceeds(AnchorGap2(pix, dsGroup), dsAggr)
                       THEN StepsOfGap(AnchorGap2(pix, dsGroup), dsAggr) ELSE 0
          IN /\ dsDownsampled' =
                   Append(dsDownsampled, mean)
                   \o [n \in 1..steps |->
                         PointAt(CxOfLink(dsGroup.lastLink), CxOfLink(link), Rat(n, steps + 1))]
             /\ dsGroup' = [sum |-> [re |-> link.re, im |-> link.im], count |-> 1,
                            pixelX |-> pix.px, pixelY |-> pix.py, lastLink |-> link]]_vars

\* a group whose last member differs from its first was flushed and followed by
\* interpolants that start at the last member
C23_Witness ==
    /\ entry = "downsampleComplexJS" /\ dsPc = "loop" /\ dsI = 3 /\ dsGroup.count = 1
    /\ dsLinks[1] # dsLinks[2] /\ PixelOf(1) # PixelOf(2)
    /\ Len(dsDownsampled) >= 2
    /\ dsDownsampled[1] = RunMean(dsLinks, 1, 2)
    /\ dsDownsampled[2] = PointAt(CxOfLink(dsLinks[2]), CxOfLink(dsLinks[3]),
                                  Rat(1, Len(dsDownsampled)))

\* ---- C24 ----
\* the input reaches the grouping stage: not empty and not taken by the fast path
ReachesGrouping ==
    /\ entry \in {"downsampleComplexJS", "downsampleComplexGo"}
    /\ dsLinks # <<>>
    /\ ~WholeSpreadWithin(dsLinks, dsAggr)

\* point k is within the pixel spread threshold of point anchor on both axes
WithinOfAnchor(anchor, k) ==
    WithinSpreadOfAnchor(PixelOf(k),
                         [pixelX |-> PixelOf(anchor).px, pixelY |-> PixelOf(anchor).py], dsAggr)

\* the last index of the run anchored at i within i..hi
RunEnd(i, hi) ==
    CHOOSE j \in i..hi : /\ \A k \in (i + 1)..j : WithinOfAnchor(i, k)
                         /\ j = hi \/ ~WithinOfAnchor(i, j + 1)

\* the groups of dsLinks[lo..hi], as pairs <<first, last>>
RECURSIVE Runs(_, _)
Runs(lo, hi) == IF lo > hi THEN <<>> ELSE <<<<lo, RunEnd(lo, hi)>>>> \o Runs(RunEnd(lo, hi) + 1, hi)

GroupsInParallel == entry = "downsampleComplexGo" /\ Len(dsLinks) >= ParallelMinLinks

\* the groups of the runs of the workers 0..w
RECURSIVE ChunkRunsUpTo(_)
ChunkRunsUpTo(w) ==
    IF w < 0 THEN <<>>
    ELSE ChunkRunsUpTo(w - 1)
         \o Runs(w * CeilDiv(Len(dsLinks), numCPU) + 1,
                 Min((w + 1) * CeilDiv(Len(dsLinks), numCPU), Len(dsLinks)))

\* the groups of the call
AllRuns == IF GroupsInParallel THEN ChunkRunsUpTo(numCPU - 1) ELSE Runs(1, Len(dsLinks))

\* the means of the groups r[from..] occur in out[at..] in this order
RECURSIVE OccurInOrder(_, _, _, _)
OccurInOrder(r, from, out, at) ==
    IF from > Len(r) THEN TRUE
    ELSE IF at > Len(out) THEN FALSE
    ELSE IF out[at] = RunMean(dsLinks, r[from][1], r[from][2])
         THEN OccurInOrder(r, from + 1, out, at + 1)
         ELSE OccurInOrder(r, from, out, at + 1)

\* the interpolants the serial loop puts between group k and group k + 1
StepsAfterRun(r, k) ==
    LET g == [pixelX |-> PixelOf(r[k][1]).px, pixelY |-> PixelOf(r[k][1]).py]
        pix == PixelOf(r[k + 1][1])
    IN IF GapIsNumber(pix, g) /\ GapExceeds(AnchorGap2(pix, g), dsAggr)
       THEN StepsOfGap(AnchorGap2(pix, g), dsAggr) ELSE 0

FinalGroupFlushed ==
    /\ DownDone
    /\ dsResult # <<>>
    /\ dsResult[Len(dsResult)] =
          RunMean(dsLinks, AllRuns[Len(AllRuns)][1], AllRuns[Len(AllRuns)][2])
    /\ OccurInOrder(AllRuns, 1, dsResult, 1)
    /\ ~GroupsInParallel =>
          Len(dsResult) = Len(AllRuns)
                          + SumSeq([k \in 1..(Len(AllRuns) - 1) |-> StepsAfterRun(AllRuns, k)])

\* C24: every call whose non-empty input reaches the grouping stage ends with the final
\* group flushed: the output is not empty, its last element is the mean of the final
\* group, and it holds one mean for every group, in order.
C24_FinalGroupFlushed == ReachesGrouping ~> FinalGroupFlushed

\* the final group has two different members and an earlier group was flushed before it
C24_Witness ==
    /\ DownDone /\ ReachesGrouping /\ Len(AllRuns) >= 2
    /\ LET last == AllRuns[Len(AllRuns)]
       IN /\ last[2] > last[1]
          /\ dsLinks[last[1]] # dsLinks[last[2]]
          /\ dsResult[Len(dsResult)] = RunMean(dsLinks, last[1], last[2])

\* ---- C25 ----
\* the index of the first member of the current group
GroupFirst == dsI - dsGroup.count + 1

\* In the serial loop the current group is the run dsLinks[GroupFirst..dsI]: its anchor
\* pixel is the pixel of its first member, every later member is within the pixel spread
\* threshold of that pixel on both axes, and the group ends only at a point that is not
\* within the threshold of the anchor, or at the end of the input.
SerialGroupsAreMaximalRuns ==
    [][(entry = "downsampleComplexJS" /\ dsPc = "loop") =>
          /\ GroupFirst >= 1
          /\ dsGroup.pixelX = PixelOf(GroupFirst).px
          /\ dsGroup.pixelY = PixelOf(GroupFirst).py
          /\ \A k \in (GroupFirst + 1)..dsI : WithinOfAnchor(GroupFirst, k)
          /\ (dsI' = dsI + 1 /\ dsGroup'.count = 1) => ~WithinOfAnchor(GroupFirst, dsI + 1)
          /\ dsPc' = "done" => dsI = Len(dsLinks)]_vars

\* a serial group of two points on different pixels has ended at a point that is within
\* the threshold of its last member, but not of its anchor
SerialGroupEndsAtAnchorSpread ==
    /\ entry = "downsampleComplexJS" /\ dsPc = "loop" /\ dsI = 3 /\ dsGroup.count = 1
    /\ PixelOf(1) # PixelOf(2)
    /\ WithinOfAnchor(1, 2)
    /\ ~WithinOfAnchor(1, 3)
    /\ WithinOfAnchor(2, 3)
    /\ Len(dsDownsampled) >= 1 /\ dsDownsampled[1] = RunMean(dsLinks, 1, 2)

\* worker w delivers its result in this step
Delivers(w) ==
    /\ dsPc = "collect" /\ w \in DOMAIN goWorkers
    /\ goWorkers[w] = "running" /\ goWorkers'[w] = "done"

\* the input point after the chunk of worker w, 0 if the chunk is empty or the last
PointAfterChunk(w) ==
    LET start == w * CeilDiv(Len(dsLinks), numCPU)
        end == Min(start + CeilDiv(Len(dsLinks), numCPU), Len(dsLinks))
    IN IF start < end /\ end < Len(dsLinks) THEN end + 1 ELSE 0

\* C25: every group is a maximal run relative to its anchor; here for the last group of
\* the chunk a worker delivers, whose anchor pixel is the result's lastPx, lastPy: the
\* input point that follows the chunk is not within the threshold of that anchor.
C25_EveryGroupIsMaximal ==
    [][\A w \in 0..(MaxCPU + 1) :
          (Delivers(w) /\ PointAfterChunk(w) # 0) =>
             LET res == goResults'[Len(goResults')]
             IN ~WithinSpreadOfAnchor(PixelOf(PointAfterChunk(w)),
                                      [pixelX |-> res.lastPx, pixelY |-> res.lastPy],
                                      dsAggr)]_vars

\* ---- C26 ----
\* a job of the series with startK >= endK
EmptyJob(job) == ~job.startK.nan /\ ~job.endK.nan /\ job.startK.val >= job.endK.val

\* the chunk of goroutine w has start >= end
EmptyGoChunk(w) ==
    w * CeilDiv(Len(dsLinks), numCPU)
       >= Min((w + 1) * CeilDiv(Len(dsLinks), numCPU), Len(dsLinks))

\* the results of the series without those of the empty chunks
SeriesNonEmptyOnly ==
    [i \in DOMAIN rsResults |-> IF EmptyJob(rsJob[i]) THEN Undefined ELSE rsResults[i]]

\* the sorted results of the spiral without those of the empty chunks
SpiralNonEmptyOnly ==
    SelectSeq(SortByChunkIndex(PromiseAll(spPromises)),
              LAMBDA r : spChunk[r.chunkIndex] # <<>>)

\* the collected results of the downsampler without those of the empty chunks
GoNonEmptyOnly ==
    LET ne == {w \in DOMAIN goCollected : ~EmptyGoChunk(w)}
    IN [j \in 0..(Cardinality(ne) - 1) |->
          goCollected[CHOOSE w \in ne : Cardinality({u \in ne : u < w}) = j]]

\* C26: the worker of a chunk with start >= end delivers a result with no points and
\* a zero total, and every merge gives what it gives without the empty chunks: the same
\* sum and terms, the same offsets and points, the same points and seam interpolants.
C26_EmptyChunksAreNeutral ==
    [][/\ \A i \in DOMAIN rsWorkers :
             (rsWorkers[i] = "posted" /\ rsWorkers'[i] = "replied" /\ EmptyJob(rsJob[i])) =>
                /\ rsReply'[i].defined
                /\ rsReply'[i].data.partialSum = 0 /\ rsReply'[i].data.terms = <<>>
       /\ (rsPc = "await" /\ rsPc' = "done") =>
             /\ rsSum' = 2 * Combine(SeriesNonEmptyOnly).sum
             /\ rsAllTerms' = Combine(SeriesNonEmptyOnly).allTerms
       /\ \A i \in DOMAIN spWorkers :
             (spWorkers[i] = "posted" /\ spWorkers'[i] = "replied" /\ spChunk[i] = <<>>) =>
                /\ spReply'[i].defined
                /\ spReply'[i].data = [prefix |-> <<>>, localSum |-> [x |-> 0, y |-> 0]]
       /\ (spPc = "await" /\ spPc' = "awaitZeta") =>
             /\ spPoints' = MergeSpiral(SpiralNonEmptyOnly).points
             /\ spScale' = [min |-> MergeSpiral(SpiralNonEmptyOnly).min,
                            max |-> MergeSpiral(SpiralNonEmptyOnly).max]
       /\ \A w \in DOMAIN goWorkers :
             (Delivers(w) /\ EmptyGoChunk(w)) =>
                /\ Len(goResults') = Len(goResults) + 1
                /\ goResults'[Len(goResults')].index = w
                /\ goResults'[Len(goResults')].points = <<>>
       /\ (dsPc = "collect" /\ dsPc' = "done") =>
             dsResult' = GoMergeResults(GoNonEmptyOnly, dsAggr)]_vars

\* the parallel downsampler has merged the results of two chunks with points and of an
\* empty third chunk
C26_Witness ==
    /\ GoParallelDone /\ numCPU = 3 /\ Len(dsLinks) = 4
    /\ EmptyGoChunk(2) /\ ~EmptyGoChunk(1)
    /\ goCollected[2].points = <<>> /\ goCollected[1].points # <<>>
    /\ goWorkers[2] = "done"
    /\ Len(dsResult) >= 2

\* ---- C27 ----
\* the sum of the localSum values of the chunks 0..k-1
RECURSIVE ChunkOffset(_)
ChunkOffset(k) ==
    IF k = 0 THEN [x |-> 0, y |-> 0]
    ELSE [x |-> ChunkOffset(k - 1).x + spReply[k - 1].data.localSum.x,
          y |-> ChunkOffset(k - 1).y + spReply[k - 1].data.localSum.y]

\* the local prefix list of chunk k, every point moved by the offset of chunk k
ShiftedChunk(k) ==
    [j \in 1..Len(spReply[k].data.prefix) |->
        Pt(spReply[k].data.prefix[j].x + ChunkOffset(k).x,
           spReply[k].data.prefix[j].y + ChunkOffset(k).y)]

RECURSIVE ShiftedChunksUpTo(_)
ShiftedChunksUpTo(k) == IF k < 0 THEN <<>> ELSE ShiftedChunksUpTo(k - 1) \o ShiftedChunk(k)

\* C27: the merged spiral is the origin followed by the local prefix lists in chunk
\* order, chunk 0 unmoved and chunk k moved by the sum of the localSum values of the
\* chunks 0..k-1; a worker's localSum is the last element of its local prefix list,
\* and (0,0) when its chunk is empty.
C27_OffsetsArePrefixSumOfLocalSums ==
    SpiralMerged =>
       /\ ChunkOffset(0) = [x |-> 0, y |-> 0]
       /\ spPoints = <<Origin>> \o ShiftedChunksUpTo(Cardinality(DOMAIN spWorkers) - 1)
       /\ \A k \in DOMAIN spReply :
             spReply[k].data.localSum =
                IF spChunk[k] = <<>> THEN [x |-> 0, y |-> 0]
                ELSE spReply[k].data.prefix[Len(spReply[k].data.prefix)]

\* a chunk of two steps and a chunk of one; the second is moved by a non-zero offset
\* that is not the first step of the first
C27_Witness ==
    /\ SpiralMerged /\ Cardinality(DOMAIN spWorkers) = 2
    /\ Len(spChunk[0]) = 2 /\ Len(spChunk[1]) = 1
    /\ ChunkOffset(1) # [x |-> 0, y |-> 0]
    /\ ChunkOffset(1) # spReply[0].data.prefix[1]
    /\ spPoints[4] = Pt(spReply[1].data.prefix[1].x + ChunkOffset(1).x,
                        spReply[1].data.prefix[1].y + ChunkOffset(1).y)

\* ---- C28 ----
\* C28: no step of a downsample call changes the input sequence, the output size or the
\* aggressiveness, from which the bounds and thresholds are computed; a goroutine's
\* step adds one result that carries its own index and changes nothing else: not the
\* results sent before, not the collected results, not another goroutine's state.
C28_WorkersWriteOnlyTheirResult ==
    [][/\ entry \in {"downsampleComplexJS", "downsampleComplexGo"} =>
             /\ dsLinks' = dsLinks
             /\ dsOutputSize' = dsOutputSize /\ dsAggr' = dsAggr
             /\ dsLinks # <<>> =>
                   Params(dsLinks', dsOutputSize', dsAggr', Num(goNaNInt'))
                      = Params(dsLinks, dsOutputSize, dsAggr, Num(goNaNInt))
       /\ \A w \in DOMAIN goWorkers :
             Delivers(w) =>
                /\ Len(goResults') = Len(goResults) + 1
                /\ SubSeq(goResults', 1, Len(goResults)) = goResults
                /\ goResults'[Len(goResults')].index = w
                /\ goCollected' = goCollected
                /\ \A u \in DOMAIN goWorkers \ {w} : goWorkers'[u] = goWorkers[u]
                /\ numCPU' = numCPU
                /\ UNCHANGED <<dsResult, dsGroup, dsDownsampled, dsI>>]_vars

\* goroutine 1 has sent its result after the result of goroutine 0 was collected
C28_Witness ==
    /\ entry = "downsampleComplexGo" /\ dsPc = "collect"
    /\ goWorkers[0] = "done" /\ numCPU >= 2 /\ goWorkers[1] = "done"
    /\ goCollected[0].points # <<>>
    /\ goResults # <<>> /\ goResults[Len(goResults)].index = 1
    /\ goResults[Len(goResults)].points # <<>>

\* ---- C29 ----
\* the aggressiveness slider ends at 4
SliderMaxAggr == 4

\* the grouping test without its exact-match disjunct
WithinThresholdOnly(pix, g, a) ==
    /\ NWithin(pix.px, g.pixelX, PixelSpreadThreshold(a))
    /\ NWithin(pix.py, g.pixelY, PixelSpreadThreshold(a))

\* one iteration of the grouping loop with the test without its exact-match disjunct
GroupStepThresholdOnly(st, link, P) ==
    LET pix == pixelForLink(link, P)
        g == st.group
    IN IF WithinThresholdOnly(pix, g, P.a)
       THEN [st EXCEPT !.group = JoinGroup(g, link)]
       ELSE [group |-> GroupOf(link, pix),
             points |-> Append(st.points, flushGroup(g))
                        \o GapInterpolants(Gap2(pix.px, pix.py, g.pixelX, g.pixelY),
                                           CxOfLink(g.lastLink), CxOfLink(link), P.a)]

\* C29: when a call starts, for every pair of pixels of its input, one as the anchor,
\* and every aggressiveness 0..4, the grouping test decides as the threshold check alone; an
\* iteration of the loop without the exact-match disjunct reaches the same group and
\* the same output.
C29_ExactMatchIsRedundant ==
    [][/\ (entry \in {"downsampleComplexJS", "downsampleComplexGo"} /\ dsPc = "start"
           /\ dsLinks # <<>>) =>
             \A j, k \in 1..Len(dsLinks), a \in 0..SliderMaxAggr :
                BelongsToGroup(PixelOf(j), GroupOf(dsLinks[k], PixelOf(k)), a)
                   <=> WithinThresholdOnly(PixelOf(j), GroupOf(dsLinks[k], PixelOf(k)), a)
       /\ LoopIteration =>
             LET st == GroupStepThresholdOnly([group |-> dsGroup, points |-> dsDownsampled],
                                              dsLinks[dsI + 1],
                                              Params(dsLinks, dsOutputSize, dsAggr, NaN))
             IN dsGroup' = st.group /\ dsDownsampled' = st.points]_vars

\* a point has joined a group by an exact match with the anchor pixel, after a member
\* on another pixel
C29_Witness ==
    /\ entry = "downsampleComplexJS" /\ dsPc = "loop" /\ dsI = 3 /\ dsGroup.count = 3
    /\ ~PixelOf(1).px.nan /\ ~PixelOf(1).py.nan
    /\ PixelOf(2) # PixelOf(1)
    /\ PixelOf(3) = PixelOf(1)
    /\ dsGroup.pixelX = PixelOf(3).px /\ dsGroup.pixelY = PixelOf(3).py

\* ---- C30 ----
RunLength(r, k) == r[k][2] - r[k][1] + 1

\* the runs r are contiguous, in input order, and cover exactly the points 1..n
PartitionInOrder(r, n) ==
    /\ Len(r) >= 1 /\ r[1][1] = 1 /\ r[Len(r)][2] = n
    /\ \A k \in 1..Len(r) : r[k][1] <= r[k][2]
    /\ \A k \in 1..(Len(r) - 1) : r[k + 1][1] = r[k][2] + 1
    /\ \A q \in 1..n : Cardinality({k \in 1..Len(r) : r[k][1] <= q /\ q <= r[k][2]}) = 1

\* the loop has consumed dsI points: the current group is the last run of the consumed
\* prefix, the flushed groups are the runs before it
CountsAddUp ==
    LET r == Runs(1, dsI)
        flushed == SubSeq(r, 1, Len(r) - 1)
    IN /\ PartitionInOrder(r, dsI)
       /\ dsGroup.count = RunLength(r, Len(r))
       /\ dsGroup.sum = SumLinks(SubSeq(dsLinks, r[Len(r)][1], r[Len(r)][2]))
       /\ SumSeq([k \in 1..Len(flushed) |-> RunLength(flushed, k)]) + dsGroup.count = dsI
       /\ OccurInOrder(flushed, 1, dsDownsampled, 1)
       /\ Len(dsDownsampled) - (IF dsPc = "done" THEN 1 ELSE 0)
             = Len(flushed) + SumSeq([k \in 1..Len(flushed) |-> StepsAfterRun(r, k)])

\* C30: in the grouping loop the counts of the groups flushed so far and of the current
\* group add up to the number of points consumed, the groups being contiguous runs in
\* input order; at the end every input point is in exactly one group and the means of
\* the groups occur in the output in input order.
C30_GroupsPartitionTheInput ==
    /\ (entry = "downsampleComplexJS" /\ dsPc \in {"loop", "done"} /\ ReachesGrouping) =>
          /\ 1 <= dsI /\ dsI <= Len(dsLinks)
          /\ dsPc = "done" => dsI = Len(dsLinks)
          /\ CountsAddUp
    /\ (DownDone /\ ReachesGrouping) =>
          /\ PartitionInOrder(AllRuns, Len(dsLinks))
          /\ OccurInOrder(AllRuns, 1, dsResult, 1)

\* two points are in a flushed group and two in the current group
C30_Witness ==
    /\ entry = "downsampleComplexJS" /\ dsPc = "loop" /\ dsI = 4
    /\ Runs(1, dsI) = <<<<1, 2>>, <<3, 4>>>>
    /\ dsLinks[1] # dsLinks[2] /\ dsLinks[3] # dsLinks[4]
    /\ dsGroup.count = 2
    /\ dsDownsampled[1] = RunMean(dsLinks, 1, 2)

\* ---- C31 ----
\* C31: when the input reaches the grouping stage both divisors maxX - minX and
\* maxY - minY are non-zero and the pixel of every point is a pair of integers in
\* 0..outputSize.
C31_PixelsAreDefined ==
    (ReachesGrouping /\ dsPc # "start") =>
       /\ ViewBounds(dsLinks).maxX # ViewBounds(dsLinks).minX
       /\ ViewBounds(dsLinks).maxY # ViewBounds(dsLinks).minY
       /\ \A j \in 1..Len(dsLinks) :
             /\ ~PixelOf(j).px.nan /\ PixelOf(j).px.val \in 0..dsOutputSize
             /\ ~PixelOf(j).py.nan /\ PixelOf(j).py.val \in 0..dsOutputSize

\* ---- C32 ----
\* the indices of the results in the channel
InChannel == {goResults[k].index : k \in 1..Len(goResults)}

\* C32: in the parallel Go call every goroutine sends one result, into a channel that
\* has room for it; the channel is closed only when all have sent; a received result
\* is written to the slot of its index, which no other result in the channel has; the
\* loop ends on the closed, empty channel with every slot holding the result of its
\* goroutine; and a call that has started its goroutines returns.
C32_CollectionTerminates ==
    /\ [][dsPc = "collect" =>
            /\ DOMAIN goWorkers = 0..(numCPU - 1)
            /\ Len(goResults) <= numCPU
            /\ \A w \in DOMAIN goWorkers :
                  /\ goWorkers[w] = "done" => goWorkers'[w] = "done"
                  /\ goWorkers[w] = "running" => w \notin InChannel
                  /\ Delivers(w) =>
                        /\ Len(goResults) < numCPU /\ ~goClosed
                        /\ Len(goResults') = Len(goResults) + 1
                        /\ SubSeq(goResults', 1, Len(goResults)) = goResults
                        /\ goResults'[Len(goResults')].index = w
            /\ Cardinality(InChannel) = Len(goResults)
            /\ goClosed => /\ \A w \in DOMAIN goWorkers : goWorkers[w] = "done"
                           /\ goClosed'
            /\ goCollected' # goCollected =>
                  /\ goResults # <<>> /\ goResults' = Tail(goResults)
                  /\ \A u \in DOMAIN goCollected \ {Head(goResults).index} :
                        goCollected'[u] = goCollected[u]
            /\ dsPc' = "done" =>
                  /\ goClosed /\ goResults = <<>>
                  /\ goCollected = GoInOrder]_vars
    /\ (dsPc = "collect") ~> (dsPc = "done")

\* a call of three goroutines, one with an empty chunk, has returned after a result
\* overtook that of an earlier chunk
C32_Witness ==
    /\ GoParallelDone /\ numCPU = 3 /\ EmptyGoChunk(2) /\ goOutOfOrder
    /\ goClosed /\ goResults = <<>>
    /\ \A w \in DOMAIN goWorkers : goWorkers[w] = "done"
    /\ dsResult # <<>>

\* ---- C33 ----
\* C33: calculateSpiralParallel returns the points and the scale {min, max} that
\* calculateSpiral returns for the same inputs.
C33_ParallelScaleEqualsSerial ==
    SpiralMerged =>
       /\ spPoints = SerialSpiral(TotalRange(imagPi), spDisp).points
       /\ spScale = [min |-> SerialSpiral(TotalRange(imagPi), spDisp).min,
                     max |-> SerialSpiral(TotalRange(imagPi), spDisp).max]

\* ---- C34 ----
\* inputs whose pixel gaps are outputSize and outputSize * sqrt(2): the corners of a
\* square wide enough never to take the fast path
StepsFar == 2 * BaseRangeUnits
StepLinkSeqs ==
    {<<[re |-> 0, im |-> 0], [re |-> StepsFar, im |-> StepsFar]>>,
     <<[re |-> 0, im |-> 0], [re |-> StepsFar, im |-> StepsFar], [re |-> StepsFar, im |-> 0]>>}

InitSteps ==
    /\ ExtIdle
    /\ entry = "downsampleComplexJS"
    /\ hc = 0 /\ imagPi = 0 /\ failures = 0
    /\ dsLinks \in StepLinkSeqs
    /\ dsOutputSize \in 1..MaxStepOut
    /\ dsAggr \in 0..SliderMaxAggr
    /\ dsPc = "start"
    /\ numCPU = 1 /\ goNaNInt = 0
    /\ DSCallIdle
    /\ RSIdle
    /\ SPIdle

NextSteps == JSStart \/ JSStep \/ JSFlush

SpecSteps == InitSteps /\ [][NextSteps]_vars

\* C34: at every aggressiveness 0..4, an iteration whose pixel gap to the anchor exceeds
\* the interpolation threshold computes at least one step and appends, after the mean,
\* at least one interpolant.
C34_ExceedingGapInterpolates ==
    [][(/\ LoopIteration /\ ~Joined
        /\ GapIsNumber(PixelOf(dsI + 1), dsGroup)
        /\ GapExceeds(AnchorGap2(PixelOf(dsI + 1), dsGroup), dsAggr)) =>
          /\ InterpolationSteps(AnchorGap2(PixelOf(dsI + 1), dsGroup), dsAggr) >= 1
          /\ Len(dsDownsampled') >= Len(dsDownsampled) + 2]_vars

\* at aggressiveness 4 a gap of outputSize * sqrt(2) > 75 pixels was interpolated
C34_Witness ==
    /\ entry = "downsampleComplexJS" /\ dsPc = "loop" /\ dsI = 2
    /\ dsAggr = SliderMaxAggr
    /\ 2 * dsOutputSize * dsOutputSize > 75 * 75
    /\ Len(dsDownsampled) >= 2
    /\ dsDownsampled[1] = CxOfLink(dsLinks[1])

\* ---- C38 ----
\* C38: when reimannSiegel or calculateSpiralParallel has returned, every worker it
\* created is terminated (and before that none is while the call waits); a worker
\* becomes terminated only once its own result message has been handled.
C38_WorkersTerminatedAfterDelivery ==
    /\ [][/\ \A i \in DOMAIN rsWorkers :
                (rsWorkers[i] # "terminated" /\ rsWorkers'[i] = "terminated") =>
                   rsWorkers[i] = "delivered" /\ rsPromises[i] /\ rsResults[i].defined
          /\ \A i \in DOMAIN spWorkers :
                (i \in DOMAIN spWorkers' /\ spWorkers[i] # "terminated"
                   /\ spWorkers'[i] = "terminated") =>
                   spWorkers[i] = "replied" /\ spPromises'[i].defined
          /\ (entry = "reimannSiegel" /\ rsPc' = "done") =>
                /\ rsWorkers' # NoWorkers
                /\ \A i \in DOMAIN rsWorkers' : rsWorkers'[i] = "terminated"
          /\ (entry = "calculateSpiralParallel" /\ spPc' \in {"awaitZeta", "done"}) =>
                /\ spWorkers' # NoWorkers
                /\ \A i \in DOMAIN spWorkers' : spWorkers'[i] = "terminated"]_vars

C38_Witness ==
    /\ entry = "calculateSpiralParallel" /\ spPc = "done" /\ spOutOfOrder
    /\ Cardinality(DOMAIN spWorkers) >= 2
    /\ \A i \in DOMAIN spWorkers : spWorkers[i] = "terminated" /\ spPromises[i].defined

\* ---- C40 ----
\* C40: in the parallel Go downsample the empty chunks come last: after an empty chunk
\* every later chunk is empty, in the partition and in the collected results, so the
\* chunk following a non-empty chunk that has a non-empty successor is non-empty itself.
C40_NonEmptyChunksFormPrefix ==
    (entry = "downsampleComplexGo" /\ goWorkers # NoWorkers) =>
       LET n == Len(dsLinks)
           c == GoChunkSize(n, numCPU)
           Empty(w) == GoStart(w, c) >= GoEnd(w, c, n)
       IN /\ \A i, j \in DOMAIN goWorkers : (i < j /\ Empty(i)) => Empty(j)
          /\ \A w \in DOMAIN goWorkers : Empty(w) <=> GoChunkOf(w).points = <<>>
          /\ dsPc = "done" =>
                /\ \A i, j \in DOMAIN goCollected :
                      (i < j /\ goCollected[i].points = <<>>) => goCollected[j].points = <<>>
                /\ \A i, j \in DOMAIN goCollected :
                      (i < j /\ goCollected[i].points # <<>> /\ goCollected[j].points # <<>>)
                         => goCollected[i + 1].points # <<>>

C40_Witness ==
    /\ GoParallelDone /\ numCPU = 3 /\ Len(dsLinks) = 4
    /\ goCollected[0].points # <<>> /\ goCollected[1].points # <<>>
    /\ goCollected[2].points = <<>>

\* ------------------------------------------- the page's animation controller
\* The handlers of the DOMContentLoaded closure run one at a time on the event loop;
\* updateVisualization is split at its await.

\* stopAnimation, up to lastFrameTime (its caller decides what is stored last):
\* cancelAnimationFrame(animationFrameId) removes that request only
StopAnimation(frames) ==
    /\ appFrames' = frames \ {animationFrameId}
    /\ animationFrameId' = 0
    /\ animSlider' = 0
    /\ appStopped' = TRUE

\* requestAnimationFrame(updateVisualization): a fresh id, the request is pending
RequestFrame ==
    /\ appFrameCount < MaxFrameRequests
    /\ appFrameCount' = appFrameCount + 1
    /\ animationFrameId' = appFrameCount + 1
    /\ appFrames' = appFrames \cup {appFrameCount + 1}

\* updateVisualization up to its await: index and animValue are read first; the
\* animation branch rewrites the index input and stops the animation when the new index
\* left the slider's range; the call then waits for updateSpiral(real, index, ...)
UpdateVisualization(frames, index) ==
    /\ appCallCount < MaxCalls
    /\ IF animSlider # 0 /\ lastFrameTime # 0
       THEN \E clampedIndex \in 1..MaxIndex, beyondRange \in BOOLEAN :
               /\ indexInput' = clampedIndex
               /\ IF beyondRange
                  THEN StopAnimation(frames)
                  ELSE /\ appFrames' = frames
                       /\ UNCHANGED <<animationFrameId, animSlider, appStopped>>
       ELSE /\ indexInput' = index
            /\ appFrames' = frames
            /\ UNCHANGED <<animationFrameId, animSlider, appStopped>>
    /\ lastFrameTime' = 1
    /\ appCallCount' = appCallCount + 1
    /\ appCalls' = appCalls \cup
                     {[id |-> appCallCount + 1, animValue |-> animSlider, index |-> index]}
    /\ appRequested' = index
    /\ UNCHANGED <<appFrameCount, appShown>>

\* the animation slider's input listener with a non-zero value: startAnimation
AnimSliderMove ==
    /\ entry = "page"
    /\ animSlider' = 1
    /\ appStopped' = FALSE
    /\ IF animationFrameId = 0
       THEN RequestFrame /\ lastFrameTime' = 1
       ELSE UNCHANGED <<animationFrameId, appFrames, appFrameCount, lastFrameTime>>
    /\ UNCHANGED <<indexInput, appCalls, appCallCount, appShown, appRequested>>
    /\ UNCHANGED <<envVars, rsVars, spVars, dsVars, inlVars>>

\* the slider's input listener with value 0, and its mouseup, touchend and mouseleave
\* listeners: stopAnimation
AnimSliderStop ==
    /\ entry = "page"
    /\ StopAnimation(appFrames)
    /\ lastFrameTime' = 0
    /\ UNCHANGED <<indexInput, appFrameCount, appCalls, appCallCount, appShown,
                   appRequested>>
    /\ UNCHANGED <<envVars, rsVars, spVars, dsVars, inlVars>>

\* the listeners of the index, real, formula and optimization controls: each calls
\* updateVisualization(performance.now()) without waiting for an earlier call
InputEvent ==
    /\ entry = "page"
    /\ \E index \in 1..MaxIndex : UpdateVisualization(appFrames, index)
    /\ UNCHANGED <<envVars, rsVars, spVars, dsVars, inlVars>>

\* the browser runs a pending frame request: updateVisualization(timestamp)
FrameCallback ==
    /\ entry = "page"
    /\ \E f \in appFrames : UpdateVisualization(appFrames \ {f}, indexInput)
    /\ UNCHANGED <<envVars, rsVars, spVars, dsVars, inlVars>>

\* a suspended updateVisualization resumes: updateSpiral has set the geometry and
\* reported the zeta value of its own parameters; the loop goes on if the call's
\* animValue was non-zero
UpdateSpiralDone ==
    /\ entry = "page"
    /\ \E call \in appCalls :
          /\ appCalls' = appCalls \ {call}
          /\ appShown' = call.index
          /\ IF call.animValue # 0
             THEN RequestFrame
             ELSE UNCHANGED <<animationFrameId, appFrames, appFrameCount>>
    /\ UNCHANGED <<animSlider, lastFrameTime, indexInput, appCallCount, appRequested,
                   appStopped>>
    /\ UNCHANGED <<envVars, rsVars, spVars, dsVars, inlVars>>

\* the page after its initial update: updateVisualization(performance.now()) is waiting
InitPage ==
    /\ entry = "page"
    /\ hc = 0 /\ imagPi = 0 /\ failures = 0
    /\ DSIdle /\ RSIdle /\ SPIdle
    /\ animSlider = 0 /\ animationFrameId = 0 /\ lastFrameTime = 1
    /\ indexInput \in 1..MaxIndex
    /\ appFrames = {} /\ appFrameCount = 0
    /\ appCalls = {[id |-> 1, animValue |-> 0, index |-> indexInput]}
    /\ appCallCount = 1
    /\ appShown = 0 /\ appRequested = indexInput /\ appStopped = FALSE
    /\ inlLength = 0 /\ inlForce = 0 /\ inlEnabled = FALSE
    /\ inlPc = "idle" /\ inlI = 0 /\ inlSum = <<>> /\ inlPoints = <<>>

NextPage == AnimSliderMove \/ AnimSliderStop \/ InputEvent \/ FrameCallback
               \/ UpdateSpiralDone

SpecPage == InitPage /\ [][NextPage]_vars

\* ---- C35 ----
\* C35: once stopAnimation has run and no updateVisualization call is in flight, no
\* frame request is pending and animationFrameId is null.
C35_StoppedMeansNoFrame ==
    (appStopped /\ appCalls = {}) => (appFrames = {} /\ animationFrameId = 0)

\* ---- C36 ----
\* C36: at most one frame request is pending at any time.
C36_SingleAnimationLoop == Cardinality(appFrames) <= 1

\* ---- C37 ----
\* C37: once every overlapping updateVisualization call has completed, the display
\* shows the parameters of the most recent call.
C37_LatestRequestShown == (entry = "page" /\ appCalls = {}) => appShown = appRequested

\* --------------------- single-threaded calculateSpiral with inline downsampling
\* runningSum is kept as the sequence of the term indices added to it; a point is the
\* index of the iteration that emitted it with the copy of runningSum it holds.

\* the force-include loop: i = 1; i <= Math.min(17000, Math.min(forceIncludeCount,
\* spiralLength)); i++
ForceBound == Min(ForceIncludeCap, Min(inlForce, inlLength))

InlForceStep ==
    /\ entry = "calculateSpiralInline" /\ inlPc = "force" /\ inlI <= ForceBound
    /\ inlSum' = Append(inlSum, inlI)
    /\ inlPoints' = Append(inlPoints, [index |-> inlI, sum |-> inlSum'])
    /\ inlI' = inlI + 1
    /\ UNCHANGED <<inlLength, inlForce, inlEnabled, inlPc>>
    /\ UNCHANGED <<envVars, rsVars, spVars, dsVars, appVars>>

\* the loop is left; the second loop starts at i = forceIncludeCount + 1
InlForceEnd ==
    /\ entry = "calculateSpiralInline" /\ inlPc = "force" /\ inlI > ForceBound
    /\ inlPc' = "rest"
    /\ inlI' = inlForce + 1
    /\ UNCHANGED <<inlLength, inlForce, inlEnabled, inlSum, inlPoints>>
    /\ UNCHANGED <<envVars, rsVars, spVars, dsVars, appVars>>

\* one iteration of the remaining-points loop (i < spiralLength): without downsampling
\* the point is emitted; with it the distance tests keep or drop the point, and reading
\* lastIncluded.x throws when no point was force-included (points[-1] is undefined)
InlRestStep ==
    /\ entry = "calculateSpiralInline" /\ inlPc = "rest" /\ inlI < inlLength
    /\ inlSum' = Append(inlSum, inlI)
    /\ IF ~inlEnabled
       THEN /\ inlPoints' = Append(inlPoints, [index |-> inlI, sum |-> inlSum'])
            /\ inlI' = inlI + 1 /\ inlPc' = inlPc
       ELSE IF inlPoints = <<>>
       THEN /\ inlPc' = "threw"
            /\ UNCHANGED <<inlPoints, inlI>>
       ELSE /\ \E keep \in BOOLEAN :
                 inlPoints' = IF keep
                              THEN Append(inlPoints, [index |-> inlI, sum |-> inlSum'])
                              ELSE inlPoints
            /\ inlI' = inlI + 1 /\ inlPc' = inlPc
    /\ UNCHANGED <<inlLength, inlForce, inlEnabled>>
    /\ UNCHANGED <<envVars, rsVars, spVars, dsVars, appVars>>

\* points.slice(0, pointCount) is returned
InlRestEnd ==
    /\ entry = "calculateSpiralInline" /\ inlPc = "rest" /\ inlI >= inlLength
    /\ inlPc' = "done"
    /\ UNCHANGED <<inlLength, inlForce, inlEnabled, inlI, inlSum, inlPoints>>
    /\ UNCHANGED <<envVars, rsVars, spVars, dsVars, appVars>>

InitInline ==
    /\ entry = "calculateSpiralInline"
    /\ hc = 0 /\ imagPi = 0 /\ failures = 0
    /\ DSIdle /\ RSIdle /\ SPIdle
    /\ animSlider = 0 /\ animationFrameId = 0 /\ lastFrameTime = 0 /\ indexInput = 1
    /\ appFrames = {} /\ appFrameCount = 0 /\ appCalls = {} /\ appCallCount = 0
    /\ appShown = 0 /\ appRequested = 0 /\ appStopped = FALSE
    /\ inlLength \in 1..MaxSpiralLength
    /\ inlForce \in 0..MaxForce
    /\ inlEnabled \in BOOLEAN
    /\ inlPc = "force" /\ inlI = 1 /\ inlSum = <<>> /\ inlPoints = <<>>

NextInline == InlForceStep \/ InlForceEnd \/ InlRestStep \/ InlRestEnd

SpecInline == InitInline /\ [][NextInline]_vars

\* ---- C39 ----
\* C39: when the call returns, each term index 1..spiralLength-1 has been added to the
\* running sum exactly once, every retained point holds the full prefix sum of its
\* index, and without downsampling the points are those of the indices
\* 1..spiralLength-1 whatever forceIncludeCount is.
C39_EveryTermAddedOnce ==
    inlPc = "done" =>
       /\ \A k \in 1..(inlLength - 1) :
             Cardinality({j \in DOMAIN inlSum : inlSum[j] = k}) = 1
       /\ \A p \in DOMAIN inlPoints :
             inlPoints[p].sum = [k \in 1..inlPoints[p].index |-> k]
       /\ ~inlEnabled =>
             [p \in DOMAIN inlPoints |-> inlPoints[p].index]
                = [k \in 1..(inlLength - 1) |-> k]

====
